---- MODULE Spec2Model ----
(***************************************************************************)
(* Recommendation pipeline of the shoe matcher: the weighted scoring       *)
(* engine (calculate_match_score and its component scorers), the review    *)
(* ingestion and fit-extraction tasks (scrape_shoe_reviews,                *)
(* extract_fit_profile) and the weight optimizer (WeightOptimizer).        *)
(*                                                                         *)
(* Real numbers are fixed-point: a factor score s is held as s * Unit, a   *)
(* weight w as w * 10.  A final match score is the exact fraction          *)
(* num / (den * Unit), num = sum(score * weight) and den = sum(weight).    *)
(***************************************************************************)
EXTENDS Integers, Sequences, FiniteSets, TLC

NULL == "null"

\* None in a numeric field.
NONE == 0 - 1

\* 1.0 in fixed-point factor-score units (exact for up to four issue factors).
Unit == 100 * 100

----------------------------------------------------------------------------
(* Bounds of the model *)

\* Largest number of candidate products in one recommendation request.
MaxShoes == 2

----------------------------------------------------------------------------
(* Scoring engine: state *)

VARIABLES
    user_profile,   \* the quiz-derived UserProfile of the request
    weights,        \* the active weight vector read by the request
    shoes,          \* candidate products, shoes[i] is the product with id i
    calls,          \* number of score calls made for the request so far
    ranked,         \* ranked list returned by the first call
    again           \* ranked list returned by the repeated call

scoreVars == <<user_profile, weights, shoes, calls, ranked, again>>

VARIABLES
    shoe_reviews,   \* table shoe_reviews: rows held per (shoe_id, source, source_review_id)
    shoe_fit_profiles,    \* table shoe_fit_profiles: the row of each shoe
    runs,           \* the scrape_shoe_reviews task runs started so far
    extract_queue,  \* extract_fit_profile messages waiting in the broker, per shoe
    extracts,       \* extract_fit_profile tasks waiting for the extraction call
    offered,        \* review keys handed to store_reviews so far
    error_log,      \* number of logger.error calls of the scrape tasks
    raised,         \* number of scraper calls that raised
    delayed,        \* extract_fit_profile.delay calls made so far, per shoe
    last_extract    \* what the last finished extraction call returned and did

ingestVars ==
    <<shoe_reviews, shoe_fit_profiles, runs, extract_queue, extracts, offered,
      error_log, raised, delayed, last_extract>>

VARIABLES
    weight_history, \* every weight vector that has been active, oldest first
    active,         \* position in weight_history of the active weight vector
    tolerance,      \* configured tolerance of the promotion guard
    opt,            \* the optimization run in progress
    opt_log,        \* promotion decisions taken so far, oldest first
    opt_runs        \* number of optimization runs started so far

optVars == <<weight_history, active, tolerance, opt, opt_log, opt_runs>>

VARIABLES
    optimizer,      \* the WeightOptimizer object of the run in progress
    request,        \* the scoring request in progress and the weights it has read
    served          \* number of scoring requests started so far

serveVars == <<optimizer, request, served>>

VARIABLES
    recommendations,   \* admin review page: ids of the recommendations listed
    submitting,        \* admin review page: the submitting state
    review_calls,      \* reviewRecommendation calls that have not settled
    clicks,            \* number of review button clicks so far
    review_status,     \* table recommendations: review_status per id
    decisions,         \* review decisions recorded by the server, oldest first
    training_examples  \* table training_examples, oldest first

reviewVars ==
    <<recommendations, submitting, review_calls, clicks, review_status, decisions,
      training_examples>>

VARIABLES
    overrides,      \* per shoe, the fit profile fields an administrator set by hand
    saves           \* number of fit profile saves of the admin shoe page so far

adminVars == <<overrides, saves>>

VARIABLES
    sessionId,              \* quiz store: sessionId
    currentQuestionIndex,   \* quiz store: currentQuestionIndex
    answers,                \* quiz store: answers, per question id (NULL: no entry)
    previousShoes,          \* quiz store: previousShoes
    isLoading,              \* quiz store: isLoading
    error,                  \* quiz store: error
    isComplete,             \* quiz store: isComplete
    recommendationId,       \* quiz store: recommendationId
    shoe_list,              \* quiz store: recommendations
    quiz_calls,             \* store calls waiting for their API response
    session_answers,        \* server: the question ids answered in the session
    effect_deps,            \* quiz page: dependency values at the last effect run
    quiz_log                \* what the store calls have done so far

quizVars ==
    <<sessionId, currentQuestionIndex, answers, previousShoes, isLoading, error,
      isComplete, recommendationId, shoe_list, quiz_calls, session_answers,
      effect_deps, quiz_log>>

VARIABLES
    token,          \* AdminApiClient: this.token
    local_storage,  \* localStorage item admin_token
    server_accepts, \* server: the issued access token is accepted
    auth_cleared,   \* the token was cleared and has not been set since
    api_requests,   \* AdminApiClient requests waiting for their response
    api_sent,       \* number of requests sent so far
    pathname,       \* usePathname()
    user,           \* AdminLayout: user
    loading,        \* AdminLayout: loading
    nav,            \* route pushed with router.push, not yet shown
    effect_pending, \* the layout's effect is due for the current pathname
    reload,         \* window.location.href was set, the document not yet replaced
    last_auth,      \* outcome of the latest auth check or logout
    last_response   \* what the latest response left behind in request()

authVars ==
    <<token, local_storage, server_accepts, auth_cleared, api_requests, api_sent,
      pathname, user, loading, nav, effect_pending, reload, last_auth, last_response>>

VARIABLES
    saving,         \* shoe editor: saving
    editor_saves,   \* number of Save Changes clicks so far
    save_form,      \* the form values the running handleSave sends
    save_before,    \* server: the shoe when the running handleSave started
    save_pc,        \* the await the running handleSave is at
    save_toast,     \* the toast the last handleSave showed
    server_shoe     \* server: the shoe's attributes and fit profile

editorVars ==
    <<saving, editor_saves, save_form, save_before, save_pc, save_toast, server_shoe>>

VARIABLES
    pager,          \* scrape_reviews: page, the reviews collected, the pages fetched
    site_pages      \* the number of review pages the product has on the site

pageVars == <<pager, site_pages>>

VARIABLES
    unconsumed,         \* server: training examples no run has consumed
    pendingExamples,    \* training dashboard: pendingExamples as last loaded
    retrain_clicks,     \* number of Retrain Model clicks so far
    retrain_requests,   \* retrain triggers sent and not yet handled
    retrain,            \* the optimization run under way and its batch size
    retrain_log,        \* the batch size of every run started
    retrain_refused,    \* number of triggers the server refused
    train_active        \* index of the active weight vector

trainVars ==
    <<unconsumed, pendingExamples, retrain_clicks, retrain_requests, retrain,
      retrain_log, retrain_refused, train_active>>

\* The variables each part of the system leaves alone.
notScoreVars == <<ingestVars, optVars, serveVars, reviewVars, adminVars, quizVars,
     authVars,
     editorVars,
     pageVars,
     trainVars>>

notIngestVars == <<scoreVars, optVars, serveVars, reviewVars, adminVars, quizVars,
     authVars,
     editorVars,
     pageVars,
     trainVars>>

notOptVars == <<scoreVars, ingestVars, serveVars, reviewVars, adminVars, quizVars,
     authVars,
     editorVars,
     pageVars,
     trainVars>>

notServeVars == <<scoreVars, ingestVars, reviewVars, adminVars, quizVars,
     authVars,
     editorVars,
     pageVars,
     trainVars>>

notReviewVars == <<scoreVars, ingestVars, optVars, serveVars, adminVars, quizVars,
     authVars,
     editorVars,
     pageVars,
     trainVars>>

notAdminVars == <<scoreVars, optVars, serveVars, reviewVars, quizVars,
     authVars,
     editorVars,
     pageVars,
     trainVars>>

notQuizVars == <<scoreVars, ingestVars, optVars, serveVars, reviewVars, adminVars,
     authVars,
     editorVars,
     pageVars,
     trainVars>>

notAuthVars ==
    <<scoreVars, ingestVars, optVars, serveVars, reviewVars, adminVars, quizVars,
     editorVars,
     pageVars,
     trainVars>>

notEditorVars ==
    <<scoreVars, ingestVars, optVars, serveVars, reviewVars, adminVars, quizVars, authVars,
     pageVars,
     trainVars>>

notPageVars ==
    <<scoreVars, ingestVars, optVars, serveVars, reviewVars, adminVars, quizVars, authVars, editorVars,
     trainVars>>

notTrainVars ==
    <<scoreVars, ingestVars, optVars, serveVars, reviewVars, adminVars, quizVars, authVars, editorVars, pageVars>>

Factors ==
    {"terrain", "pronation", "issues", "width", "arch", "priorities",
     "cushion", "distance", "position", "budget", "history", "sentiment"}

\* Weights in tenths.
DEFAULT_WEIGHTS ==
    [f \in Factors |->
        CASE f = "terrain"    -> 20
          [] f = "pronation"  -> 18
          [] f = "issues"     -> 18
          [] f = "width"      -> 15
          [] f = "arch"       -> 13
          [] f = "priorities" -> 13
          [] f = "cushion"    -> 12
          [] f = "distance"   -> 10
          [] f = "position"   -> 10
          [] f = "budget"     -> 10
          [] f = "history"    -> 8
          [] f = "sentiment"  -> 5]

\* The valid (clamp) range of a weight, in tenths: [0.1, 3.0].
WeightMin == 1
WeightMax == 30

ValidWeights(w) ==
    /\ DOMAIN w = Factors
    /\ \A f \in Factors : WeightMin <= w[f] /\ w[f] <= WeightMax

----------------------------------------------------------------------------
(* Scoring engine: component scoring functions *)

\* width_map.get((shoe_width, user_width), 0.5)
width_map(shoe_width, user_width) ==
    CASE shoe_width = "narrow" /\ user_width = "narrow"   -> Unit
      [] shoe_width = "narrow" /\ user_width = "standard" -> (5 * Unit) \div 10
      [] shoe_width = "narrow" /\ user_width = "wide"     -> (1 * Unit) \div 10
      [] shoe_width = "true"   /\ user_width = "narrow"   -> (7 * Unit) \div 10
      [] shoe_width = "true"   /\ user_width = "standard" -> Unit
      [] shoe_width = "true"   /\ user_width = "wide"     -> (7 * Unit) \div 10
      [] shoe_width = "wide"   /\ user_width = "narrow"   -> (1 * Unit) \div 10
      [] shoe_width = "wide"   /\ user_width = "standard" -> (6 * Unit) \div 10
      [] shoe_width = "wide"   /\ user_width = "wide"     -> Unit
      [] OTHER                                            -> (5 * Unit) \div 10

calculate_width_match(fit_profile, foot) ==
    LET shoe_width == IF fit_profile.width_runs = NULL THEN "true"
                      ELSE fit_profile.width_runs
        user_width == IF foot.width = NULL THEN "standard" ELSE foot.width
    IN  width_map(shoe_width, user_width)

\* support_map.get((attrs.subcategory, user_pronation), 0.5)
support_map(shoe_type, user_pronation) ==
    CASE shoe_type = "neutral"   /\ user_pronation = "neutral"        -> Unit
      [] shoe_type = "neutral"   /\ user_pronation = "overpronation"  -> (3 * Unit) \div 10
      [] shoe_type = "neutral"   /\ user_pronation = "underpronation" -> (8 * Unit) \div 10
      [] shoe_type = "stability" /\ user_pronation = "neutral"        -> (7 * Unit) \div 10
      [] shoe_type = "stability" /\ user_pronation = "overpronation"  -> Unit
      [] shoe_type = "stability" /\ user_pronation = "underpronation" -> (4 * Unit) \div 10
      [] shoe_type = "motion_control" /\ user_pronation = "neutral"        -> (4 * Unit) \div 10
      [] shoe_type = "motion_control" /\ user_pronation = "overpronation"  -> (9 * Unit) \div 10
      [] shoe_type = "motion_control" /\ user_pronation = "underpronation" -> (2 * Unit) \div 10
      [] OTHER -> (5 * Unit) \div 10

calculate_pronation_match(shoe, foot) ==
    IF shoe.category # "running" THEN Unit
    ELSE LET user_pronation == IF foot.pronation = NULL THEN "neutral"
                               ELSE foot.pronation
         IN  support_map(shoe.subcategory, user_pronation)

\* The loop of calculate_issue_compatibility over the user's issues.
RECURSIVE IssueLoop(_, _, _)
IssueLoop(fit, issues, score) ==
    IF issues = << >> THEN score
    ELSE LET issue == Head(issues)
             next  == IF issue \in fit.avoid_if THEN score \div 10
                      ELSE IF issue \in fit.works_well_for THEN (score * 12) \div 10
                      ELSE score
         IN  IssueLoop(fit, Tail(issues), next)

Min(a, b) == IF a <= b THEN a ELSE b

\* A plausible slip: the final min(score, 1.0) is forgotten.
IssueCompatibilityUncapped(shoe, issues) ==
    IF issues = << >> THEN Unit ELSE IssueLoop(shoe.fit_profile, issues, Unit)

\* A plausible slip: works_well_for is tested before avoid_if.
RECURSIVE IssueLoopWorksFirst(_, _, _)
IssueLoopWorksFirst(fit, issues, score) ==
    IF issues = << >> THEN score
    ELSE LET issue == Head(issues)
             next  == IF issue \in fit.works_well_for THEN (score * 12) \div 10
                      ELSE IF issue \in fit.avoid_if THEN score \div 10
                      ELSE score
         IN  IssueLoopWorksFirst(fit, Tail(issues), next)

IssueCompatibilityWorksFirst(shoe, issues) ==
    IF issues = << >> THEN Unit
    ELSE Min(IssueLoopWorksFirst(shoe.fit_profile, issues, Unit), Unit)

calculate_issue_compatibility(shoe, issues) ==
    IF issues = << >> THEN Unit
    ELSE Min(IssueLoop(shoe.fit_profile, issues, Unit), Unit)

\* The scorers the repository names but does not define.  Each returns a
\* value in [0,1]; the value it returns for a shoe and the request's profile
\* is carried by the shoe (terrain_match, pref_match).
calculate_terrain_match(shoe, profile) == shoe.terrain_match

calculate_arch_match(shoe, foot) ==
    IF shoe.category # "running" THEN Unit ELSE shoe.pref_match

calculate_cushion_match(shoe, preferences) == shoe.pref_match

calculate_priority_match(shoe, priorities) == shoe.pref_match

calculate_distance_match(shoe, distances) ==
    IF shoe.category # "running" THEN Unit ELSE shoe.pref_match

calculate_position_match(shoe, position) ==
    IF shoe.category # "basketball" THEN Unit ELSE shoe.pref_match

calculate_budget_match(price, budget) == price

calculate_history_match(shoe, previous_shoes) == shoe.pref_match

\* shoe.fit_profile.overall_sentiment or 0.5 (None and 0.0 are both falsy)
SentimentOr(shoe) ==
    IF shoe.fit_profile.overall_sentiment = NONE
       \/ shoe.fit_profile.overall_sentiment = 0
    THEN (5 * Unit) \div 10
    ELSE shoe.fit_profile.overall_sentiment

\* The dict `scores` of calculate_match_score once every factor is computed;
\* 'history' is present only when the profile has previous shoes.
factor_scores(shoe, profile) ==
    LET keys == IF profile.previous_shoes THEN Factors ELSE Factors \ {"history"}
    IN  [f \in keys |->
            CASE f = "terrain"    -> calculate_terrain_match(shoe, profile)
              [] f = "width"      -> calculate_width_match(shoe.fit_profile, profile.foot)
              [] f = "arch"       -> calculate_arch_match(shoe, profile.foot)
              [] f = "pronation"  -> calculate_pronation_match(shoe, profile.foot)
              [] f = "issues"     -> calculate_issue_compatibility(shoe, profile.foot_issues)
              [] f = "cushion"    -> calculate_cushion_match(shoe, profile)
              [] f = "priorities" -> calculate_priority_match(shoe, profile)
              [] f = "distance"   -> calculate_distance_match(shoe, profile)
              [] f = "position"   -> calculate_position_match(shoe, profile)
              [] f = "budget"     -> calculate_budget_match(shoe.pref_match, profile)
              [] f = "history"    -> calculate_history_match(shoe, profile)
              [] f = "sentiment"  -> SentimentOr(shoe)]

RECURSIVE SumOver(_, _)
SumOver(S, g) ==
    IF S = {} THEN 0
    ELSE LET x == CHOOSE y \in S : TRUE
         IN  g[x] + SumOver(S \ {x}, g)

\* scores.get(key, 0.5)
ScoreGet(scores, key) ==
    IF key \in DOMAIN scores THEN scores[key] ELSE (5 * Unit) \div 10

\* A plausible slip: the weighted sum is divided by the number of weights.
MatchScoreDividedByCount(shoe, profile, w) ==
    LET scores == factor_scores(shoe, profile)
    IN  IF shoe.category # profile.category THEN [num |-> 0, den |-> 1]
        ELSE IF calculate_terrain_match(shoe, profile) = 0 THEN [num |-> 0, den |-> 1]
        ELSE [num |-> SumOver(DOMAIN w, [k \in DOMAIN w |-> ScoreGet(scores, k) * w[k]]),
              den |-> Cardinality(DOMAIN w) * 10]

\* The fraction num / (den * Unit) that calculate_match_score returns.
calculate_match_score(shoe, profile, w) ==
    LET scores == factor_scores(shoe, profile)
    IN  IF shoe.category # profile.category THEN [num |-> 0, den |-> 1]
        ELSE IF calculate_terrain_match(shoe, profile) = 0 THEN [num |-> 0, den |-> 1]
        ELSE [num |-> SumOver(DOMAIN w, [k \in DOMAIN w |-> ScoreGet(scores, k) * w[k]]),
              den |-> SumOver(DOMAIN w, w)]

----------------------------------------------------------------------------
(* Scoring engine: the ranked list of one recommendation request *)

\* Number of matches a request returns at most.
TopN == 5

\* score a > score b, as fractions
ScoreGreater(a, b) == a.num * b.den > b.num * a.den

ScoreEqual(a, b) == a.num * b.den = b.num * a.den

\* A plausible slip: only the terrain filter is applied.
PassesTerrainOnly(shoe, profile) ==
    calculate_terrain_match(shoe, profile) # 0

\* A plausible slip: only the category filter is applied.
PassesCategoryOnly(shoe, profile) ==
    shoe.category = profile.category

\* The hard filters: a product of another category, or unusable for the
\* stated primary use, never enters ranking.
PassesHardFilters(shoe, profile) ==
    /\ shoe.category = profile.category
    /\ calculate_terrain_match(shoe, profile) # 0

\* One scored candidate.
Scored(id, profile, w) ==
    [shoe_id   |-> id,
     score     |-> calculate_match_score(shoes[id], profile, w),
     sentiment |-> SentimentOr(shoes[id])]

\* A plausible slip: no secondary key, equal scores keep their input order.
BeforeScoreOnly(a, b) == ScoreGreater(a.score, b.score)

\* a is ranked ahead of b: higher score, then higher sentiment, then lower id.
Before(a, b) ==
    \/ ScoreGreater(a.score, b.score)
    \/ /\ ScoreEqual(a.score, b.score)
       /\ \/ a.sentiment > b.sentiment
          \/ a.sentiment = b.sentiment /\ a.shoe_id < b.shoe_id

\* Stable insertion of x into the sorted sequence s.
RECURSIVE InsertSorted(_, _)
InsertSorted(x, s) ==
    IF s = << >> THEN << x >>
    ELSE IF Before(x, Head(s)) THEN << x >> \o s
    ELSE << Head(s) >> \o InsertSorted(x, Tail(s))

RECURSIVE SortScored(_)
SortScored(s) ==
    IF s = << >> THEN << >>
    ELSE InsertSorted(s[Len(s)], SortScored(SubSeq(s, 1, Len(s) - 1)))

\* A plausible slip: competition ranking, equal scores share a rank.
CompetitionRank(sorted, i) ==
    1 + Cardinality({j \in DOMAIN sorted : ScoreGreater(sorted[j].score, sorted[i].score)})

\* The rank of the entry at position i of the sorted list.
RankAt(sorted, i) == i

\* The ranked list for the candidates supplied in `order` (a sequence of ids).
generate_ranking(order, profile, w) ==
    LET kept   == SelectSeq(order, LAMBDA id : PassesHardFilters(shoes[id], profile))
        scored == [i \in 1..Len(kept) |-> Scored(kept[i], profile, w)]
        sorted == SortScored(scored)
        top    == SubSeq(sorted, 1, Min(Len(sorted), TopN))
    IN  [i \in 1..Len(top) |->
            [shoe_id |-> top[i].shoe_id,
             rank    |-> RankAt(top, i),
             score   |-> top[i].score]]

----------------------------------------------------------------------------
(* Scoring engine: inputs and specification *)

Categories == {"running", "basketball"}

IssueLists ==
    {<< >>, <<"overpronation", "plantar_fasciitis">>}

Profiles ==
    [category       : Categories,
     foot           : [width : {"wide"}, pronation : {"overpronation"}],
     foot_issues    : IssueLists,
     previous_shoes : BOOLEAN]

\* Fit profiles: a profile with a works_well_for entry comes from favourable
\* reviews (sentiment 1.0), one without has no sentiment extracted.
FitProfiles ==
    {[width_runs        |-> "wide",
      avoid_if          |-> a,
      works_well_for    |-> w,
      overall_sentiment |-> IF w = {} THEN NONE ELSE Unit] :
        a \in {{}, {"overpronation"}}, w \in {{}, {"overpronation"}}}

ShoeSpace ==
    [category      : Categories,
     subcategory   : {"stability"},
     terrain_match : {0, Unit},
     pref_match    : {Unit},
     fit_profile   : FitProfiles]

UniformWeights(v) == [f \in Factors |-> v]

WeightVectors ==
    {DEFAULT_WEIGHTS,
     [UniformWeights(WeightMin) EXCEPT !["issues"] = WeightMax],
     [UniformWeights(WeightMax) EXCEPT !["issues"] = WeightMin]}

\* All orders in which the ids 1..n can be supplied.
Orders(n) ==
    {o \in [1..n -> 1..n] : \A i, j \in 1..n : i # j => o[i] # o[j]}

ScoreInit ==
    /\ user_profile \in Profiles
    /\ weights \in WeightVectors
    /\ shoes \in UNION {[1..n -> ShoeSpace] : n \in 1..MaxShoes}
    /\ calls = 0
    /\ ranked = << >>
    /\ again = << >>
    /\ shoe_reviews = << >>
    /\ shoe_fit_profiles = << >>
    /\ runs = << >>
    /\ extract_queue = << >>
    /\ extracts = << >>
    /\ offered = {}
    /\ error_log = 0
    /\ raised = 0
    /\ delayed = << >>
    /\ last_extract = << >>
    /\ weight_history = << >>
    /\ active = 0
    /\ tolerance = 0
    /\ opt = << >>
    /\ opt_log = << >>
    /\ opt_runs = 0
    /\ optimizer = << >>
    /\ request = << >>
    /\ served = 0
    /\ recommendations = {}
    /\ submitting = NULL
    /\ review_calls = << >>
    /\ clicks = 0
    /\ review_status = << >>
    /\ decisions = << >>
    /\ training_examples = << >>
    /\ overrides = << >>
    /\ saves = 0
    /\ sessionId = NULL
    /\ currentQuestionIndex = 0
    /\ answers = << >>
    /\ previousShoes = << >>
    /\ isLoading = FALSE
    /\ error = NULL
    /\ isComplete = FALSE
    /\ recommendationId = NULL
    /\ shoe_list = << >>
    /\ quiz_calls = << >>
    /\ session_answers = {}
    /\ effect_deps = << >>
    /\ quiz_log = << >>
    /\ token = NULL
    /\ local_storage = NULL
    /\ server_accepts = FALSE
    /\ auth_cleared = FALSE
    /\ api_requests = << >>
    /\ api_sent = 0
    /\ pathname = NULL
    /\ user = NULL
    /\ loading = FALSE
    /\ nav = NULL
    /\ effect_pending = FALSE
    /\ reload = FALSE
    /\ last_auth = NULL
    /\ last_response = << >>
    /\ saving = FALSE
    /\ editor_saves = 0
    /\ save_form = << >>
    /\ save_before = << >>
    /\ save_pc = NULL
    /\ save_toast = NULL
    /\ server_shoe = << >>
    /\ pager = << >>
    /\ site_pages = 0
    /\ unconsumed = 0
    /\ pendingExamples = 0
    /\ retrain_clicks = 0
    /\ retrain_requests = 0
    /\ retrain = << >>
    /\ retrain_log = << >>
    /\ retrain_refused = 0
    /\ train_active = 0

\* The first call of score: candidates supplied in id order.
Score ==
    /\ calls = 0
    /\ ranked' = generate_ranking([i \in 1..Len(shoes) |-> i], user_profile, weights)
    /\ calls' = 1
    /\ UNCHANGED <<user_profile, weights, shoes, again>>
    /\ UNCHANGED notScoreVars

\* A repeated call with the same inputs, candidates supplied in any order.
Rescore ==
    /\ calls = 1
    /\ \E order \in Orders(Len(shoes)) :
          again' = generate_ranking(order, user_profile, weights)
    /\ calls' = 2
    /\ UNCHANGED <<user_profile, weights, shoes, ranked>>
    /\ UNCHANGED notScoreVars

ScoreNext == Score \/ Rescore

----------------------------------------------------------------------------
(* Review ingestion and fit extraction: state *)

\* Largest number of scrape_shoe_reviews task runs started.
MaxRuns == 2

ShoeIds == {"s1", "s2"}

\* get_shoe(shoe_id).category: s1 is a running shoe, s2 a basketball shoe.
CategoryOf(shoe_id) == IF shoe_id = "s1" THEN "running" ELSE "basketball"

\* get_default_sources(shoe.category): the first sources of SCRAPER_SOURCES.
get_default_sources(category) ==
    IF category = "running" THEN <<"running_warehouse", "fleet_feet">>
    ELSE <<"foot_locker">>

ReviewIds == {"r1"}

Range(seq) == {seq[i] : i \in DOMAIN seq}

\* The keys (shoe_id, source, source_review_id) a row can have.
ReviewKeys ==
    {k \in ShoeIds \X {"running_warehouse", "fleet_feet", "foot_locker"} \X ReviewIds :
        k[2] \in Range(get_default_sources(CategoryOf(k[1])))}

\* What scraper.scrape_shoe(shoe) can return: a list of reviews, here the
\* list of their source_review_id, a review possibly listed twice.
ScrapeResults ==
    {<< >>} \cup {<<r>> : r \in ReviewIds} \cup {<<r, r>> : r \in ReviewIds}

----------------------------------------------------------------------------
(* Review ingestion: storing reviews *)

\* A plausible slip: the table has no uniqueness constraint.
NoUniqueConstraint(table, key) == FALSE

\* UNIQUE(shoe_id, source, source_review_id): inserting key would violate it.
UniqueViolation(table, key) == table[key] >= 1

\* store_reviews: each review is checked against the uniqueness constraint
\* before storage and silently skipped when it is already stored.
RECURSIVE store_reviews(_, _, _, _)
store_reviews(table, shoe_id, source, reviews) ==
    IF reviews = << >> THEN table
    ELSE LET key == <<shoe_id, source, Head(reviews)>>
             next == IF UniqueViolation(table, key) THEN table
                     ELSE [table EXCEPT ![key] = @ + 1]
         IN  store_reviews(next, shoe_id, source, Tail(reviews))

KeysOf(shoe_id, source, reviews) ==
    {<<shoe_id, source, reviews[i]>> : i \in DOMAIN reviews}

\* get_reviews_for_shoe(shoe_id): the number of rows of the shoe.
RECURSIVE RowCount(_, _, _)
RowCount(table, shoe_id, keys) ==
    IF keys = {} THEN 0
    ELSE LET k == CHOOSE x \in keys : TRUE
         IN  (IF k[1] = shoe_id THEN table[k] ELSE 0)
               + RowCount(table, shoe_id, keys \ {k})

get_reviews_for_shoe(table, shoe_id) == RowCount(table, shoe_id, ReviewKeys)

----------------------------------------------------------------------------
(* Review ingestion: the task scrape_shoe_reviews *)

\* @app.task(bind=True, max_retries=3): the retry ceiling of the task.
max_retries == 3

\* What makes scraper.scrape_shoe raise: a transient failure (the httpx
\* client's 30 s timeout) or a non-transient one (a selector that finds
\* nothing, select_one(...) giving None).
TransientFailures == {"timeout"}

PermanentFailures == {"selector_not_found"}

Raises(outcome) == outcome = "timeout" \/ outcome = "selector_not_found"

\* The attempt of source in the run ended by raising outcome.
SourceRaised(run, source, outcome) ==
    [run EXCEPT !.failed = @ \cup {source},
                !.attempts[source] = @ + 1,
                !.transient = IF outcome = "timeout" THEN @ \cup {source} ELSE @]

\* The attempt of source in the run ended with a list of reviews.
SourceScraped(run, source, reviews) ==
    [run EXCEPT !.attempts[source] = @ + 1,
                !.all_reviews = @ + Len(reviews)]

NewRun(shoe_id) ==
    [shoe_id        |-> shoe_id,
     pc             |-> "sources",
     sources        |-> get_default_sources(CategoryOf(shoe_id)),
     failed         |-> {},
     transient      |-> {},
     attempts       |-> [source \in Range(get_default_sources(CategoryOf(shoe_id))) |-> 0],
     all_reviews    |-> 0]

\* A plausible slip: the except branch re-attempts the source, whatever the
\* failure, until the source has been attempted max_retries + 1 times.
ScrapeBodyRetryAnyFailure(run, outcome, table) ==
    IF run.pc = "sources" THEN
        LET source == Head(run.sources)
            rest   == Tail(run.sources)
            after  == [run EXCEPT !.sources = rest,
                                  !.pc = IF rest = << >> THEN "trigger" ELSE "sources"]
        IN  IF Raises(outcome)
            THEN [run    |-> IF run.attempts[source] < max_retries
                             THEN SourceRaised(run, source, outcome)
                             ELSE SourceRaised(after, source, outcome),
                  table  |-> table, errors |-> 1, delay |-> 0]
            ELSE [run    |-> SourceScraped(after, source, outcome),
                  table  |-> store_reviews(table, run.shoe_id, source, outcome),
                  errors |-> 0,
                  delay  |-> 0]
    ELSE IF run.pc = "trigger" THEN
        [run    |-> [run EXCEPT !.pc = "done"],
         table  |-> table,
         errors |-> 0,
         delay  |-> 1]
    ELSE [run |-> run, table |-> table, errors |-> 0, delay |-> 0]

\* A plausible slip: the loop has no try/except, a source that raises ends
\* the task as failed and the remaining sources are not attempted.
ScrapeBodyAbortOnFailure(run, outcome, table) ==
    IF run.pc = "sources" THEN
        LET source == Head(run.sources)
            rest   == Tail(run.sources)
            after  == [run EXCEPT !.sources = rest,
                                  !.pc = IF rest = << >> THEN "trigger" ELSE "sources"]
        IN  IF Raises(outcome)
            THEN [run    |-> [SourceRaised(run, source, outcome) EXCEPT !.pc = "failed"],
                  table  |-> table, errors |-> 1, delay |-> 0]
            ELSE [run    |-> SourceScraped(after, source, outcome),
                  table  |-> store_reviews(table, run.shoe_id, source, outcome),
                  errors |-> 0,
                  delay  |-> 0]
    ELSE IF run.pc = "trigger" THEN
        [run    |-> [run EXCEPT !.pc = "done"],
         table  |-> table,
         errors |-> 0,
         delay  |-> 1]
    ELSE [run |-> run, table |-> table, errors |-> 0, delay |-> 0]

\* A plausible slip: extract_fit_profile.delay is called inside the loop,
\* once per source, and not after it.
ScrapeBodyDelayPerSource(run, outcome, table) ==
    IF run.pc = "sources" THEN
        LET source == Head(run.sources)
            rest   == Tail(run.sources)
            after  == [run EXCEPT !.sources = rest,
                                  !.pc = IF rest = << >> THEN "done" ELSE "sources"]
        IN  IF Raises(outcome)
            THEN [run    |-> SourceRaised(after, source, outcome),
                  table  |-> table, errors |-> 1, delay |-> 1]
            ELSE [run    |-> SourceScraped(after, source, outcome),
                  table  |-> store_reviews(table, run.shoe_id, source, outcome),
                  errors |-> 0,
                  delay  |-> 1]
    ELSE [run |-> run, table |-> table, errors |-> 0, delay |-> 0]

\* One step of the body of scrape_shoe_reviews: an iteration of the loop over
\* the sources (outcome: the list scrape_shoe returned, or what it raised), or the
\* statement after the loop.  Gives the run, the table, the number of errors
\* logged and the number of extract_fit_profile.delay calls of the step.
scrape_shoe_reviews(run, outcome, table) ==
    IF run.pc = "sources" THEN
        LET source == Head(run.sources)
            rest   == Tail(run.sources)
            after  == [run EXCEPT !.sources = rest,
                                  !.pc = IF rest = << >> THEN "trigger" ELSE "sources"]
        IN  IF Raises(outcome)
            THEN [run    |-> SourceRaised(after, source, outcome),
                  table  |-> table, errors |-> 1, delay |-> 0]
            ELSE [run    |-> SourceScraped(after, source, outcome),
                  table  |-> store_reviews(table, run.shoe_id, source, outcome),
                  errors |-> 0,
                  delay  |-> 0]
    ELSE IF run.pc = "trigger" THEN
        [run    |-> [run EXCEPT !.pc = "done"],
         table  |-> table,
         errors |-> 0,
         delay  |-> 1]
    ELSE [run |-> run, table |-> table, errors |-> 0, delay |-> 0]

\* scrape_shoe_reviews.delay(shoe_id): a worker starts a run for the shoe.
StartScrape(shoe_id) ==
    /\ Len(runs) < MaxRuns
    /\ runs' = Append(runs, NewRun(shoe_id))
    /\ UNCHANGED <<shoe_reviews, shoe_fit_profiles, extract_queue, extracts, offered,
                   error_log, raised, delayed, last_extract>>
    /\ UNCHANGED notIngestVars

ApplyScrapeStep(r, outcome) ==
    LET step == scrape_shoe_reviews(runs[r], outcome, shoe_reviews)
    IN  /\ runs' = [runs EXCEPT ![r] = step.run]
        /\ shoe_reviews' = step.table
        /\ error_log' = error_log + step.errors
        /\ extract_queue' =
              [extract_queue EXCEPT ![runs[r].shoe_id] = @ + step.delay]
        /\ delayed' = [delayed EXCEPT ![runs[r].shoe_id] = @ + step.delay]

\* The scraper of the next source returned a list of reviews.
ScrapeSourceOk(r) ==
    /\ runs[r].pc = "sources"
    /\ \E reviews \in ScrapeResults :
          /\ ApplyScrapeStep(r, reviews)
          /\ offered' = offered \cup
                KeysOf(runs[r].shoe_id, Head(runs[r].sources), reviews)
    /\ UNCHANGED <<shoe_fit_profiles, extracts, raised, last_extract>>
    /\ UNCHANGED notIngestVars

\* The scraper of the next source raised (network failure, selector breakage).
ScrapeSourceFails(r, failure) ==
    /\ runs[r].pc = "sources"
    /\ ApplyScrapeStep(r, failure)
    /\ raised' = raised + 1
    /\ UNCHANGED <<shoe_fit_profiles, extracts, offered, last_extract>>
    /\ UNCHANGED notIngestVars

\* The statement after the loop: extract_fit_profile.delay(shoe_id).
ScrapeTrigger(r) ==
    /\ runs[r].pc = "trigger"
    /\ ApplyScrapeStep(r, << >>)
    /\ UNCHANGED <<shoe_fit_profiles, extracts, offered, raised, last_extract>>
    /\ UNCHANGED notIngestVars

----------------------------------------------------------------------------
(* Fit extraction: the task extract_fit_profile *)

SIZE_RUNS == {"small", "true", "large"}

WIDTH_RUNS == {"narrow", "true", "wide"}

EXTRACTION_MODEL == "claude-sonnet-4-20250514"

\* The enumerations the extraction prompt asks for (null when unknown).
SchemaValid(result) ==
    /\ result.size_runs \in SIZE_RUNS \cup {NULL}
    /\ result.width_runs \in WIDTH_RUNS \cup {NULL}

\* What json.loads(response) can give: a document of the schema, or one with
\* a value outside an enumeration.
ExtractionResults ==
    {[size_runs |-> "small", width_runs |-> "narrow"],
     [size_runs |-> "small", width_runs |-> "extra_wide"]}

\* The row of a shoe no extraction has written (column defaults).
EmptyProfile ==
    [size_runs |-> NULL, width_runs |-> NULL, review_count |-> 0,
     extraction_model |-> NULL, needs_review |-> TRUE]

\* A row an administrator has reviewed and released.
ReviewedProfile ==
    [size_runs |-> "true", width_runs |-> "true", review_count |-> 0,
     extraction_model |-> NULL, needs_review |-> FALSE]

\* ReviewFitExtractor.extract_fit_profile: the parsed document with
\* review_count and extraction_model added.
ExtractorResult(result, review_count) ==
    [size_runs        |-> result.size_runs,
     width_runs       |-> result.width_runs,
     review_count     |-> review_count,
     extraction_model |-> EXTRACTION_MODEL]

\* update_fit_profile(shoe_id, shoe_fit_profiles, needs_review): the row is
\* overwritten with the extracted document and the flag.
update_fit_profile(table, shoe_id, profile, needs_review) ==
    [table EXCEPT ![shoe_id] =
        [size_runs        |-> profile.size_runs,
         width_runs       |-> profile.width_runs,
         review_count     |-> profile.review_count,
         extraction_model |-> profile.extraction_model,
         needs_review     |-> needs_review]]

NoExtract == [shoe_id |-> NULL]

\* A plausible slip: the extraction stores its result as reviewed.
NeedsReviewCleared == FALSE

\* needs_review=True: the flag the task passes to update_fit_profile.
NeedsReviewOnExtract == TRUE

\* A worker takes an extract_fit_profile message: it reads the shoe's reviews
\* and returns at once when there are none.
ExtractStart(shoe_id) ==
    /\ extract_queue[shoe_id] > 0
    /\ extract_queue' = [extract_queue EXCEPT ![shoe_id] = @ - 1]
    /\ LET n == get_reviews_for_shoe(shoe_reviews, shoe_id)
       IN  extracts' = IF n = 0 THEN extracts
                       ELSE Append(extracts, [shoe_id |-> shoe_id, review_count |-> n])
    /\ UNCHANGED <<shoe_reviews, shoe_fit_profiles, runs, offered, error_log, raised,
                   delayed, last_extract>>
    /\ UNCHANGED notIngestVars

Remove(seq, i) == SubSeq(seq, 1, i - 1) \o SubSeq(seq, i + 1, Len(seq))

\* The extraction call of task i returned a JSON document: it is stored with
\* needs_review = True.
ExtractStore(i) ==
    /\ i \in DOMAIN extracts
    /\ \E result \in ExtractionResults :
          LET t      == extracts[i]
              stored == update_fit_profile(shoe_fit_profiles, t.shoe_id,
                            ExtractorResult(result, t.review_count),
                            NeedsReviewOnExtract)
          IN  /\ shoe_fit_profiles' = stored
              /\ last_extract' = [shoe_id |-> t.shoe_id,
                                  result  |-> result,
                                  before  |-> shoe_fit_profiles[t.shoe_id],
                                  after   |-> stored[t.shoe_id]]
    /\ extracts' = Remove(extracts, i)
    /\ UNCHANGED <<shoe_reviews, runs, extract_queue, offered, error_log, raised,
                   delayed>>
    /\ UNCHANGED notIngestVars

\* The extraction call of task i raised (API error, response that is no
\* JSON): the task fails and writes nothing.
ExtractRaises(i) ==
    /\ i \in DOMAIN extracts
    /\ extracts' = Remove(extracts, i)
    /\ UNCHANGED <<shoe_reviews, shoe_fit_profiles, runs, extract_queue, offered,
                   error_log, raised, delayed, last_extract>>
    /\ UNCHANGED notIngestVars

----------------------------------------------------------------------------
(* Weight optimizer: WeightOptimizer and the periodic weight update *)

\* Largest number of optimization runs started.
MaxOptRuns == 2

\* A weight vector of the scoring engine (tenths) in units of 1 / Unit.
ToFixed(w) == [f \in DOMAIN w |-> w[f] * (Unit \div 10)]

learning_rate == Unit \div 10

\* original.index(shoe_id) if shoe_id in original else 999 (0-based).
OriginalRank(original, shoe_id) ==
    IF \E i \in 1..Len(original) : original[i] = shoe_id
    THEN (CHOOSE i \in 1..Len(original) :
              /\ original[i] = shoe_id
              /\ \A j \in 1..(i - 1) : original[j] # shoe_id) - 1
    ELSE 999

\* rank_delta of the shoe at 0-based position i of the ideal ranking.
RankDelta(example, i) ==
    OriginalRank(example.original_ranking, example.ideal_ranking[i + 1]) - i

\* The factors on which calculate_factor_scores gives the shoe more than 0.7.
GoodFactors(example, shoe_id) == example.good[shoe_id]

\* The (example, position) pairs that append a delta to adjustments[factor].
Adjusting(examples, factor) ==
    {p \in UNION {{<<e, i>> : i \in 0..(Len(examples[e].ideal_ranking) - 1)} :
                  e \in 1..Len(examples)} :
        /\ examples[p[1]].source = "admin_correction"
        /\ RankDelta(examples[p[1]], p[2]) > 0
        /\ factor \in GoodFactors(examples[p[1]],
                                  examples[p[1]].ideal_ranking[p[2] + 1])}

\* sum(deltas) of one factor, each delta rank_delta * 0.1 in units of 1 / Unit.
RECURSIVE SumDeltas(_, _)
SumDeltas(examples, pairs) ==
    IF pairs = {} THEN 0
    ELSE LET p == CHOOSE q \in pairs : TRUE
         IN  RankDelta(examples[p[1]], p[2]) * (Unit \div 10)
             + SumDeltas(examples, pairs \ {p})

Max(a, b) == IF a >= b THEN a ELSE b

\* A plausible slip: the adjusted weight is stored without the clamp.
UpdateFromExamplesNoClamp(w, examples) ==
    [factor \in DOMAIN w |->
        LET pairs == Adjusting(examples, factor)
        IN  IF pairs = {} THEN w[factor]
            ELSE LET avg_delta == SumDeltas(examples, pairs) \div Cardinality(pairs)
                 IN  w[factor] + (avg_delta * learning_rate) \div Unit]

\* WeightOptimizer.update_from_examples: the averaged adjustment of every
\* adjusted factor times the learning rate, clamped to [0.1, 3.0]
\* (quotients rounded down to 1 / Unit).
update_from_examples(w, examples) ==
    [factor \in DOMAIN w |->
        LET pairs == Adjusting(examples, factor)
        IN  IF pairs = {} THEN w[factor]
            ELSE LET avg_delta == SumDeltas(examples, pairs) \div Cardinality(pairs)
                     raw == w[factor] + (avg_delta * learning_rate) \div Unit
                 IN  Max(WeightMin * (Unit \div 10),
                         Min(WeightMax * (Unit \div 10), raw))]

\* WeightOptimizer.evaluate: the mean of the per-example calculate_ndcg
\* values of a non-empty held-out set, as the fraction num / den.
evaluate(ndcgs) == [num |-> SumOver(DOMAIN ndcgs, ndcgs), den |-> Len(ndcgs)]

\* "Update if improved", with the always-update variant before it.
UpdateAlways(proposed_score, active_score) == TRUE

Improved(proposed_score, active_score) ==
    proposed_score.num * active_score.den > active_score.num * proposed_score.den

\* Training examples of a batch: a correction that moves shoe b up one place,
\* a correction whose preferred shoe c the original ranking did not contain,
\* and an approval.
Examples ==
    {[source |-> "admin_correction",
      original_ranking |-> <<"a", "b">>, ideal_ranking |-> <<"b", "a">>,
      good |-> [x \in {"a", "b"} |-> IF x = "b" THEN {"terrain"} ELSE {}]],
     [source |-> "admin_correction",
      original_ranking |-> <<"a">>, ideal_ranking |-> <<"c", "a">>,
      good |-> [x \in {"a", "c"} |-> {"terrain", "sentiment"}]],
     [source |-> "admin_approval",
      original_ranking |-> <<"a", "b">>, ideal_ranking |-> <<"a", "b">>,
      good |-> [x \in {"a", "b"} |-> {"terrain"}]]}

Batches == {<< >>} \cup {<<e>> : e \in Examples}

\* calculate_ndcg values of one held-out example, and held-out set sizes.
Ndcgs == {0, Unit}

HeldOutSizes == 0..2

Tolerances == {0, Unit \div 20, Unit \div 2}

NoScore == [num |-> NONE, den |-> 1]

OptIdle ==
    [pc |-> "idle", proposal |-> << >>, held_out |-> 0,
     proposed_score |-> NoScore, active_score |-> NoScore]

\* The periodic weight update starts: the optimizer is built on a copy of
\* the active vector and proposes a vector from the batch.
OptPropose(examples) ==
    /\ opt.pc = "idle"
    /\ opt_runs < MaxOptRuns
    /\ opt' = [OptIdle EXCEPT !.pc = "proposed",
                   !.proposal = update_from_examples(weight_history[active], examples)]
    /\ opt_runs' = opt_runs + 1
    /\ UNCHANGED <<weight_history, active, tolerance, opt_log>>
    /\ UNCHANGED notOptVars

\* Both vectors are evaluated on the same non-empty held-out set; the same
\* vector gets the same score.
OptEvaluate(proposed_ndcgs, active_ndcgs) ==
    /\ opt.pc = "proposed"
    /\ Len(proposed_ndcgs) = Len(active_ndcgs)
    /\ Len(proposed_ndcgs) >= 1
    /\ opt.proposal = weight_history[active] => proposed_ndcgs = active_ndcgs
    /\ opt' = [opt EXCEPT !.pc = "evaluated",
                   !.held_out = Len(proposed_ndcgs),
                   !.proposed_score = evaluate(proposed_ndcgs),
                   !.active_score = evaluate(active_ndcgs)]
    /\ UNCHANGED <<weight_history, active, tolerance, opt_log, opt_runs>>
    /\ UNCHANGED notOptVars

OptEvent(event, after) ==
    [event |-> event, proposal |-> opt.proposal,
     proposed_score |-> opt.proposed_score, active_score |-> opt.active_score,
     before |-> weight_history[active], after |-> after]

\* An empty held-out set: evaluate divides by len(scores) = 0 and raises,
\* the run ends without a decision.
OptEvaluateRaises ==
    /\ opt.pc = "proposed"
    /\ opt' = OptIdle
    /\ opt_log' = Append(opt_log, OptEvent("failed", weight_history[active]))
    /\ UNCHANGED <<weight_history, active, tolerance, opt_runs>>
    /\ UNCHANGED notOptVars

\* Promotion: the proposal is appended to the history and the active
\* pointer moves to it in the same step.
OptPromote ==
    /\ opt.pc = "evaluated"
    /\ Improved(opt.proposed_score, opt.active_score)
    /\ weight_history' = Append(weight_history, opt.proposal)
    /\ active' = Len(weight_history) + 1
    /\ opt_log' = Append(opt_log, OptEvent("promoted", opt.proposal))
    /\ opt' = OptIdle
    /\ UNCHANGED <<tolerance, opt_runs>>
    /\ UNCHANGED notOptVars

\* Rejection: the proposal is dropped and logged.
OptReject ==
    /\ opt.pc = "evaluated"
    /\ ~Improved(opt.proposed_score, opt.active_score)
    /\ opt_log' = Append(opt_log, OptEvent("rejected", weight_history[active]))
    /\ opt' = OptIdle
    /\ UNCHANGED <<weight_history, active, tolerance, opt_runs>>
    /\ UNCHANGED notOptVars

----------------------------------------------------------------------------
(* Weight optimizer and scoring requests running side by side *)

\* Largest number of scoring requests started.
MaxRequests == 1

\* for key in weights.keys(): the key order of the weight vector.
FactorOrder ==
    <<"terrain", "pronation", "issues", "width", "arch", "priorities",
      "cushion", "distance", "position", "budget", "history", "sentiment">>

\* A plausible slip: self.weights = current_weights, the optimizer works on
\* the active vector's own dict.
WeightOptimizerNoCopy(current_weights) ==
    [weights |-> current_weights, shared |-> TRUE]

\* WeightOptimizer.__init__: self.weights is a copy of the vector passed in,
\* an object of its own (shared: self.weights is the active vector's object).
WeightOptimizerInit(current_weights) ==
    [weights |-> current_weights, shared |-> FALSE]

OptimizerIdle == [pc |-> "idle"]

RequestIdle == [pc |-> "idle"]

\* The factors that have an entry in adjustments.
AdjustedFactors(w, examples) ==
    {factor \in DOMAIN w : Adjusting(examples, factor) # {}}

\* The periodic weight update builds the optimizer on the active vector and
\* calls update_from_examples, which first collects the adjustments.
OptimizerStart(examples) ==
    /\ optimizer.pc = "idle"
    /\ opt.pc = "idle"
    /\ opt_runs < MaxOptRuns
    /\ optimizer' = [pc       |-> "updating",
                     self     |-> WeightOptimizerInit(weight_history[active]),
                     examples |-> examples,
                     todo     |-> AdjustedFactors(weight_history[active], examples)]
    /\ opt_runs' = opt_runs + 1
    /\ UNCHANGED <<weight_history, active, tolerance, opt, opt_log>>
    /\ UNCHANGED <<request, served>>
    /\ UNCHANGED notServeVars

\* One iteration of "for factor, deltas in adjustments.items()": the
\* factor's entry of self.weights is rewritten in place.
OptimizerAdjust(factor) ==
    /\ optimizer.pc = "updating"
    /\ factor \in optimizer.todo
    /\ LET new == update_from_examples(optimizer.self.weights,
                                       optimizer.examples)[factor]
       IN  /\ optimizer' = [optimizer EXCEPT !.self.weights[factor] = new,
                                             !.todo = @ \ {factor}]
           /\ weight_history' =
                 IF optimizer.self.shared
                 THEN [weight_history EXCEPT ![active][factor] = new]
                 ELSE weight_history
    /\ UNCHANGED <<active, tolerance, opt, opt_log, opt_runs>>
    /\ UNCHANGED <<request, served>>
    /\ UNCHANGED notServeVars

\* return self.weights: the proposal of the run.
OptimizerReturn ==
    /\ optimizer.pc = "updating"
    /\ optimizer.todo = {}
    /\ opt' = [OptIdle EXCEPT !.pc = "proposed",
                              !.proposal = optimizer.self.weights]
    /\ optimizer' = OptimizerIdle
    /\ UNCHANGED <<weight_history, active, tolerance, opt_log, opt_runs>>
    /\ UNCHANGED <<request, served>>
    /\ UNCHANGED notServeVars

\* A scoring request starts: it takes the active weight vector, one object,
\* as the weights argument of calculate_match_score.
RequestStart ==
    /\ request.pc # "reading"
    /\ served < MaxRequests
    /\ request' = [pc        |-> "reading",
                   vector    |-> active,
                   began     |-> weight_history[active],
                   read      |-> << >>,
                   straddled |-> FALSE]
    /\ served' = served + 1
    /\ UNCHANGED optimizer
    /\ UNCHANGED optVars
    /\ UNCHANGED notServeVars

\* The weighted sum reads weights.get(key) of the next key.
RequestRead ==
    /\ request.pc = "reading"
    /\ LET factor == FactorOrder[Len(request.read) + 1]
           read   == Append(request.read, weight_history[request.vector][factor])
       IN  request' = [request EXCEPT
                          !.read = read,
                          !.pc = IF Len(read) = Len(FactorOrder) THEN "done" ELSE "reading",
                          !.straddled = @ \/ (request.read # << >> /\ active # request.vector)]
    /\ UNCHANGED <<optimizer, served>>
    /\ UNCHANGED optVars
    /\ UNCHANGED notServeVars

----------------------------------------------------------------------------
(* Feedback collector: the admin review queue and the review endpoint *)

\* Largest number of review button clicks.
MaxClicks == 3

RecommendationIds == {"m1", "m2"}

\* The decisions the review page sends (the endpoint also takes "adjusted").
PageStatuses == {"approved", "rejected"}

\* A plausible slip: a rejected recommendation is discarded, not stored.
StoreExampleDropRejected(id, status) ==
    IF status = "rejected" THEN << >>
    ELSE <<[recommendation_id |-> id,
            kind |-> IF status = "approved" THEN "positive" ELSE "correction"]>>

\* The training examples one decision stores: approved, a positive example;
\* adjusted, the correction; rejected, a negative example.
StoreExample(id, status) ==
    <<[recommendation_id |-> id,
       kind |-> IF status = "approved" THEN "positive"
                ELSE IF status = "adjusted" THEN "correction"
                ELSE "negative"]>>

\* handleReview up to the await: setSubmitting(id) and the POST of
\* adminApi.reviewRecommendation.  The buttons of a listed pending
\* recommendation are enabled unless submitting is its id.
HandleReview(id, status) ==
    /\ clicks < MaxClicks
    /\ id \in recommendations
    /\ submitting # id
    /\ submitting' = id
    /\ review_calls' = Append(review_calls, [id |-> id, status |-> status, stage |-> "sent"])
    /\ clicks' = clicks + 1
    /\ UNCHANGED <<recommendations, review_status, decisions, training_examples>>
    /\ UNCHANGED notReviewVars

\* POST /admin/recommendations/{id}/review reaches the server: the decision
\* is recorded on the recommendation and converted into a training example.
ReviewEndpoint(i) ==
    /\ i \in DOMAIN review_calls
    /\ review_calls[i].stage = "sent"
    /\ LET call == review_calls[i]
       IN  /\ review_status' = [review_status EXCEPT ![call.id] = call.status]
           /\ decisions' = Append(decisions, [id |-> call.id, status |-> call.status])
           /\ training_examples' =
                 training_examples \o StoreExample(call.id, call.status)
    /\ review_calls' = [review_calls EXCEPT ![i].stage = "handled"]
    /\ UNCHANGED <<recommendations, submitting, clicks>>
    /\ UNCHANGED notReviewVars

\* handleReview after the await resolved: the recommendation leaves the list;
\* finally setSubmitting(null).
HandleReviewResolved(i) ==
    /\ i \in DOMAIN review_calls
    /\ review_calls[i].stage = "handled"
    /\ recommendations' = recommendations \ {review_calls[i].id}
    /\ submitting' = NULL
    /\ review_calls' = Remove(review_calls, i)
    /\ UNCHANGED <<clicks, review_status, decisions, training_examples>>
    /\ UNCHANGED notReviewVars

\* handleReview after the await rejected (the request or its response was
\* lost): the error toast; finally setSubmitting(null).
HandleReviewRejected(i) ==
    /\ i \in DOMAIN review_calls
    /\ submitting' = NULL
    /\ review_calls' = Remove(review_calls, i)
    /\ UNCHANGED <<recommendations, clicks, review_status, decisions, training_examples>>
    /\ UNCHANGED notReviewVars

----------------------------------------------------------------------------
(* Admin shoe page: manual override of the fit profile *)

\* Largest number of fit profile saves.
MaxSaves == 1

\* The enumerated fit profile fields of the form and their options.
OverrideFields == {"size_runs", "width_runs"}

FieldOptions(field) == IF field = "size_runs" THEN SIZE_RUNS ELSE WIDTH_RUNS

\* The fit profile part of handleSave's payload: the form's fields, the edited
\* one included, an empty field left out (value || undefined).
FitProfilePayload(row, field, value) ==
    LET form == [f \in OverrideFields |-> IF f = field THEN value ELSE row[f]]
    IN  [f \in {g \in OverrideFields : form[g] # NULL} |-> form[f]]

\* POST /admin/shoes/{id}/fit-profile: the fields sent are written to the row.
ApplyFitProfile(row, data) ==
    [row EXCEPT !.size_runs = IF "size_runs" \in DOMAIN data THEN data.size_runs ELSE @,
                !.width_runs = IF "width_runs" \in DOMAIN data THEN data.width_runs ELSE @]

\* handleSave: the administrator changed one field of the loaded profile and
\* saved; adminApi.updateFitProfile posts the form.
HandleSave(shoe_id, field, value) ==
    /\ saves < MaxSaves
    /\ value # shoe_fit_profiles[shoe_id][field]
    /\ shoe_fit_profiles' =
          [shoe_fit_profiles EXCEPT ![shoe_id] =
              ApplyFitProfile(@, FitProfilePayload(@, field, value))]
    /\ overrides' = [overrides EXCEPT ![shoe_id] =
                        {o \in @ : o[1] # field} \cup {<<field, value>>}]
    /\ saves' = saves + 1
    /\ UNCHANGED <<shoe_reviews, runs, extract_queue, extracts, offered, error_log,
                   raised, delayed, last_extract>>
    /\ UNCHANGED notAdminVars

----------------------------------------------------------------------------
(* Quiz store (useQuizStore) and the quiz page *)

\* Largest number of submitAnswer calls, of getRecommendations calls, of
\* goBack calls that move, and of previous shoes held.
MaxSubmits == 2

MaxAutoRequests == 2

MaxBacks == 1

MaxPreviousShoes == 1

QuestionIds == {"q1", "q2"}

AnswerOptions == {"road"}

\* response.shoes of getRecommendations: an empty list or one shoe.
ShoeLists == {<< >>, <<"shoe1">>}

NoAnswers == [q \in QuestionIds |-> NULL]

\* initialState, and the record of what the store calls have done: the
\* profile held when recommendationId was set, the answers the API accepted,
\* and counts of accepted submissions, moving goBack calls, submitAnswer
\* calls and getRecommendations calls of the page effect.
QuizLogInit ==
    [frozen        |-> [answers |-> NoAnswers, previousShoes |-> << >>],
     accepted      |-> NoAnswers,
     advances      |-> 0,
     backs         |-> 0,
     submits       |-> 0,
     auto_requests |-> 0]

QuizCall(op, questionId, answer) ==
    [op |-> op, questionId |-> questionId, answer |-> answer,
     answers |-> answers, currentQuestionIndex |-> currentQuestionIndex,
     previousShoes |-> previousShoes]

CallsOf(op) == {i \in DOMAIN quiz_calls : quiz_calls[i].op = op}

\* startQuiz up to the await (the page calls it when there is no session).
StartQuiz ==
    /\ sessionId = NULL
    /\ CallsOf("startQuiz") = {}
    /\ isLoading' = TRUE
    /\ error' = NULL
    /\ quiz_calls' = Append(quiz_calls, QuizCall("startQuiz", NULL, NULL))
    /\ UNCHANGED <<sessionId, currentQuestionIndex, answers, previousShoes, isComplete,
                   recommendationId, shoe_list, session_answers, effect_deps, quiz_log>>
    /\ UNCHANGED notQuizVars

StartQuizResolved(i) ==
    /\ i \in CallsOf("startQuiz")
    /\ sessionId' = "sess1"
    /\ currentQuestionIndex' = 0
    /\ answers' = NoAnswers
    /\ isLoading' = FALSE
    /\ isComplete' = FALSE
    /\ quiz_calls' = Remove(quiz_calls, i)
    /\ UNCHANGED <<previousShoes, error, recommendationId, shoe_list, session_answers,
                   effect_deps, quiz_log>>
    /\ UNCHANGED notQuizVars

StartQuizRejected(i) ==
    /\ i \in CallsOf("startQuiz")
    /\ isLoading' = FALSE
    /\ error' = "Failed to start quiz"
    /\ quiz_calls' = Remove(quiz_calls, i)
    /\ UNCHANGED <<sessionId, currentQuestionIndex, answers, previousShoes, isComplete,
                   recommendationId, shoe_list, session_answers, effect_deps, quiz_log>>
    /\ UNCHANGED notQuizVars

\* submitAnswer up to the await: get() reads answers and
\* currentQuestionIndex, which the call keeps until its response arrives.
SubmitAnswer(questionId, answer) ==
    /\ quiz_log.submits < MaxSubmits
    /\ quiz_log' = [quiz_log EXCEPT !.submits = @ + 1]
    /\ IF sessionId = NULL
       THEN /\ error' = "No active quiz session"
            /\ UNCHANGED <<isLoading, quiz_calls>>
       ELSE /\ isLoading' = TRUE
            /\ error' = NULL
            /\ quiz_calls' = Append(quiz_calls, QuizCall("submitAnswer", questionId, answer))
    /\ UNCHANGED <<sessionId, currentQuestionIndex, answers, previousShoes, isComplete,
                   recommendationId, shoe_list, session_answers, effect_deps>>
    /\ UNCHANGED notQuizVars

\* api.submitAnswer resolved: the server has recorded the answer and reports
\* is_complete when every question of the session is answered; the store
\* sets answers and currentQuestionIndex from the values read before the await.
SubmitAnswerResolved(i) ==
    /\ i \in CallsOf("submitAnswer")
    /\ LET call == quiz_calls[i]
       IN  /\ session_answers' = session_answers \cup {call.questionId}
           /\ answers' = [call.answers EXCEPT ![call.questionId] = call.answer]
           /\ currentQuestionIndex' = call.currentQuestionIndex + 1
           /\ isComplete' = (session_answers' = QuestionIds)
           /\ quiz_log' = [quiz_log EXCEPT !.accepted[call.questionId] = call.answer,
                                           !.advances = @ + 1]
    /\ isLoading' = FALSE
    /\ quiz_calls' = Remove(quiz_calls, i)
    /\ UNCHANGED <<sessionId, previousShoes, error, recommendationId, shoe_list,
                   effect_deps>>
    /\ UNCHANGED notQuizVars

\* A plausible slip: the catch branch moves on to the next question as the
\* success branch does.
SubmitAnswerRejectedAdvances(i) ==
    /\ i \in CallsOf("submitAnswer")
    /\ isLoading' = FALSE
    /\ error' = "Failed to submit answer"
    /\ currentQuestionIndex' = quiz_calls[i].currentQuestionIndex + 1
    /\ quiz_calls' = Remove(quiz_calls, i)
    /\ UNCHANGED <<sessionId, answers, previousShoes, isComplete,
                   recommendationId, shoe_list, session_answers, effect_deps, quiz_log>>
    /\ UNCHANGED notQuizVars

\* api.submitAnswer threw: the catch branch.
SubmitAnswerRejected(i) ==
    /\ i \in CallsOf("submitAnswer")
    /\ isLoading' = FALSE
    /\ error' = "Failed to submit answer"
    /\ quiz_calls' = Remove(quiz_calls, i)
    /\ UNCHANGED <<sessionId, currentQuestionIndex, answers, previousShoes, isComplete,
                   recommendationId, shoe_list, session_answers, effect_deps, quiz_log>>
    /\ UNCHANGED notQuizVars

\* goBack, when it moves.
GoBack ==
    /\ currentQuestionIndex > 0
    /\ quiz_log.backs < MaxBacks
    /\ currentQuestionIndex' = currentQuestionIndex - 1
    /\ quiz_log' = [quiz_log EXCEPT !.backs = @ + 1]
    /\ UNCHANGED <<sessionId, answers, previousShoes, isLoading, error, isComplete,
                   recommendationId, shoe_list, quiz_calls, session_answers, effect_deps>>
    /\ UNCHANGED notQuizVars

AddPreviousShoe(shoe) ==
    /\ Len(previousShoes) < MaxPreviousShoes
    /\ previousShoes' = Append(previousShoes, shoe)
    /\ UNCHANGED <<sessionId, currentQuestionIndex, answers, isLoading, error, isComplete,
                   recommendationId, shoe_list, quiz_calls, session_answers, effect_deps,
                   quiz_log>>
    /\ UNCHANGED notQuizVars

\* removePreviousShoe(index), index 0-based.
RemovePreviousShoe(index) ==
    /\ index \in 0..(Len(previousShoes) - 1)
    /\ previousShoes' = Remove(previousShoes, index + 1)
    /\ UNCHANGED <<sessionId, currentQuestionIndex, answers, isLoading, error, isComplete,
                   recommendationId, shoe_list, quiz_calls, session_answers, effect_deps,
                   quiz_log>>
    /\ UNCHANGED notQuizVars

\* The dependencies of the page effect "get recommendations when complete".
EffectDeps == <<isComplete, isLoading, Len(shoe_list)>>

\* The page effect runs after a render in which a dependency changed; when
\* the quiz is complete, nothing is loading and no shoe is held, it calls
\* getRecommendations, which runs up to its await.
QuizEffect ==
    /\ effect_deps # EffectDeps
    /\ effect_deps' = EffectDeps
    /\ IF isComplete /\ ~isLoading /\ Len(shoe_list) = 0
       THEN /\ quiz_log.auto_requests < MaxAutoRequests
            /\ quiz_log' = [quiz_log EXCEPT !.auto_requests = @ + 1]
            /\ isLoading' = TRUE
            /\ error' = NULL
            /\ quiz_calls' = Append(quiz_calls, QuizCall("getRecommendations", NULL, NULL))
       ELSE UNCHANGED <<quiz_log, isLoading, error, quiz_calls>>
    /\ UNCHANGED <<sessionId, currentQuestionIndex, answers, previousShoes, isComplete,
                   recommendationId, shoe_list, session_answers>>
    /\ UNCHANGED notQuizVars

\* api.getRecommendations resolved.
GetRecommendationsResolved(i, shoe_ids) ==
    /\ i \in CallsOf("getRecommendations")
    /\ recommendationId' = "rec1"
    /\ shoe_list' = shoe_ids
    /\ isLoading' = FALSE
    /\ quiz_log' = IF recommendationId = NULL
                   THEN [quiz_log EXCEPT !.frozen = [answers |-> answers,
                                                     previousShoes |-> previousShoes]]
                   ELSE quiz_log
    /\ quiz_calls' = Remove(quiz_calls, i)
    /\ UNCHANGED <<sessionId, currentQuestionIndex, answers, previousShoes, error,
                   isComplete, session_answers, effect_deps>>
    /\ UNCHANGED notQuizVars

GetRecommendationsRejected(i) ==
    /\ i \in CallsOf("getRecommendations")
    /\ isLoading' = FALSE
    /\ error' = "Failed to get recommendations"
    /\ quiz_calls' = Remove(quiz_calls, i)
    /\ UNCHANGED <<sessionId, currentQuestionIndex, answers, previousShoes, isComplete,
                   recommendationId, shoe_list, session_answers, effect_deps, quiz_log>>
    /\ UNCHANGED notQuizVars

----------------------------------------------------------------------------
(* Quiz page: handleOptionSelect and handleMultiSelectSubmit *)

\* The questions of the session, in order: a multi_select question with
\* max_select and an exclusive "none" option, and a single_select question.
Questions == <<"q1", "q2">>

QuestionType(q) == IF q = "q1" THEN "multi_select" ELSE "single_select"

\* max_select of the multi_select question.
MaxSelect == 2

max_select(q) == IF q = "q1" THEN MaxSelect ELSE NONE

OptionsOf(q) ==
    IF q = "q1" THEN {"none", "bunions", "flat_feet", "wide_feet"} ELSE AnswerOptions

\* questions[currentQuestionIndex], NULL when there is none.
CurrentQuestion ==
    IF sessionId # NULL /\ currentQuestionIndex < Len(Questions)
    THEN Questions[currentQuestionIndex + 1]
    ELSE NULL

Includes(array, value) == \E i \in DOMAIN array : array[i] = value

\* array.filter((v) => v !== value)
Without(array, value) == SelectSeq(array, LAMBDA v : v # value)

\* (answers[currentQuestion.id] as string[]) || []
CurrentAnswer(q) == IF answers[q] = NULL THEN << >> ELSE answers[q]

\* currentAnswer.includes(value) ? currentAnswer.filter(...) : [...currentAnswer, value]
Toggle(currentAnswer, value) ==
    IF Includes(currentAnswer, value) THEN Without(currentAnswer, value)
    ELSE Append(currentAnswer, value)

\* A plausible slip: "none" is toggled like every other option.
OptionSelectNoExclusive(currentAnswer, value, max) ==
    LET newAnswer == Toggle(currentAnswer, value)
    IN  IF max # NONE /\ max # 0 /\ Len(newAnswer) > max
        THEN [do |-> "return", answer |-> currentAnswer]
        ELSE [do |-> "store", answer |-> newAnswer]

\* The multi_select branch of handleOptionSelect: what a click on value does
\* with the answer: submit it, store it locally, or nothing.
OptionSelect(currentAnswer, value, max) ==
    LET newAnswer == Toggle(currentAnswer, value)
    IN  IF value = "none"
        THEN [do |-> "submit", answer |-> <<"none">>]
        ELSE IF Includes(newAnswer, "none")
        THEN [do |-> "submit", answer |-> Without(newAnswer, "none")]
        ELSE IF max # NONE /\ max # 0 /\ Len(newAnswer) > max
        THEN [do |-> "return", answer |-> currentAnswer]
        ELSE [do |-> "store", answer |-> newAnswer]

\* handleOptionSelect(value) up to its await, if it has one.
HandleOptionSelect(value) ==
    /\ CurrentQuestion # NULL
    /\ ~isLoading
    /\ value \in OptionsOf(CurrentQuestion)
    /\ IF QuestionType(CurrentQuestion) = "multi_select"
       THEN LET click == OptionSelect(CurrentAnswer(CurrentQuestion), value,
                                      max_select(CurrentQuestion))
            IN  IF click.do = "submit"
                THEN SubmitAnswer(CurrentQuestion, click.answer)
                ELSE /\ answers' = [answers EXCEPT ![CurrentQuestion] = click.answer]
                     /\ UNCHANGED <<sessionId, currentQuestionIndex, previousShoes,
                                    isLoading, error, isComplete, recommendationId,
                                    shoe_list, quiz_calls, session_answers, effect_deps,
                                    quiz_log>>
                     /\ UNCHANGED notQuizVars
       ELSE SubmitAnswer(CurrentQuestion, value)

\* handleMultiSelectSubmit: the Next button of a multi_select question.
HandleMultiSelectSubmit ==
    /\ CurrentQuestion # NULL
    /\ ~isLoading
    /\ Len(CurrentAnswer(CurrentQuestion)) > 0
    /\ SubmitAnswer(CurrentQuestion, answers[CurrentQuestion])

\* The Back button: goBack, disabled at the first question and while loading.
PageGoBack ==
    /\ ~isLoading
    /\ GoBack

----------------------------------------------------------------------------
(* Admin authentication: AdminApiClient and AdminLayout *)

\* Largest number of requests AdminApiClient sends.
MaxApiRequests == 3

\* The pages of the admin area the browser visits.
Paths == {"/admin", "/admin/shoes", "/admin/login"}

\* The access token the server issues.
AccessTokens == {"t1"}

NoResponse == [status |-> 0, thrown |-> NULL, token |-> NULL, storage |-> NULL]

\* A plausible slip: clearToken removes the stored token and keeps the one
\* in memory.
ClearTokenStorageOnly == [token |-> token, storage |-> NULL]

\* AdminApiClient.clearToken: the token in memory and the localStorage item.
ClearToken == [token |-> NULL, storage |-> NULL]

\* AdminApiClient.setToken.
SetToken(t) == [token |-> t, storage |-> t]

\* AdminApiClient.request up to the fetch: the Authorization header is set
\* when this.token is set.  held and after_clear record whether a token was
\* held, and whether the token had been cleared and not set again, when the
\* request was built.
AdminRequest(endpoint) ==
    [endpoint      |-> endpoint,
     authorization |-> IF token # NULL THEN token ELSE NULL,
     held          |-> token # NULL,
     after_clear   |-> auth_cleared]

\* The server accepts the request's bearer token.
Authorized(req) == req.authorization # NULL /\ server_accepts

\* What request() leaves behind for a response of the given status.
Responded(status, thrown, tok) ==
    [status |-> status, thrown |-> thrown, token |-> tok.token, storage |-> tok.storage]

\* AdminLayout shows the protected children: not the login page, not the
\* spinner, and a user is set.
ChildrenRendered == pathname # "/admin/login" /\ ~loading /\ user # NULL

\* The layout's effect for the current pathname: checkAuth.  On the login
\* page it only ends the loading state, elsewhere it sends getCurrentUser.
LayoutEffect ==
    /\ effect_pending
    /\ effect_pending' = FALSE
    /\ IF pathname = "/admin/login"
       THEN /\ loading' = FALSE
            /\ UNCHANGED <<api_requests, api_sent>>
       ELSE /\ api_sent < MaxApiRequests
            /\ api_requests' = Append(api_requests, AdminRequest("/admin/me"))
            /\ api_sent' = api_sent + 1
            /\ UNCHANGED loading
    /\ UNCHANGED <<token, local_storage, server_accepts, auth_cleared, pathname, user,
                   nav, reload, last_auth, last_response>>
    /\ UNCHANGED notAuthVars

\* getCurrentUser resolved: setUser(currentUser); finally setLoading(false).
CheckAuthResolved(i) ==
    /\ api_requests[i].endpoint = "/admin/me"
    /\ Authorized(api_requests[i])
    /\ user' = "admin"
    /\ loading' = FALSE
    /\ last_auth' = "ok"
    /\ last_response' = Responded(200, NULL, [token |-> token, storage |-> local_storage])
    /\ api_requests' = Remove(api_requests, i)
    /\ UNCHANGED <<token, local_storage, server_accepts, auth_cleared, api_sent, pathname,
                   nav, effect_pending, reload>>
    /\ UNCHANGED notAuthVars

\* getCurrentUser answered 401: request() clears the token, sets
\* window.location.href and throws 'Unauthorized'; checkAuth catches it and
\* pushes the login route; finally setLoading(false).
CheckAuthUnauthorized(i) ==
    /\ api_requests[i].endpoint = "/admin/me"
    /\ ~Authorized(api_requests[i])
    /\ token' = ClearToken.token
    /\ local_storage' = ClearToken.storage
    /\ auth_cleared' = TRUE
    /\ reload' = TRUE
    /\ nav' = "/admin/login"
    /\ loading' = FALSE
    /\ last_auth' = "failed"
    /\ last_response' = Responded(401, "Unauthorized", ClearToken)
    /\ api_requests' = Remove(api_requests, i)
    /\ UNCHANGED <<server_accepts, api_sent, pathname, user, effect_pending>>
    /\ UNCHANGED notAuthVars

\* getCurrentUser failed otherwise (the fetch rejected, a 5xx response):
\* request() throws, checkAuth pushes the login route; finally
\* setLoading(false).
CheckAuthFails(i) ==
    /\ api_requests[i].endpoint = "/admin/me"
    /\ nav' = "/admin/login"
    /\ loading' = FALSE
    /\ last_auth' = "failed"
    /\ last_response' = Responded(500, "API error", [token |-> token, storage |-> local_storage])
    /\ api_requests' = Remove(api_requests, i)
    /\ UNCHANGED <<token, local_storage, server_accepts, auth_cleared, api_sent, pathname,
                   user, effect_pending, reload>>
    /\ UNCHANGED notAuthVars

\* AdminApiClient.login up to the fetch, called from the login page.
Login ==
    /\ pathname = "/admin/login"
    /\ api_sent < MaxApiRequests
    /\ api_requests' = Append(api_requests, AdminRequest("/admin/login"))
    /\ api_sent' = api_sent + 1
    /\ UNCHANGED <<token, local_storage, server_accepts, auth_cleared, pathname, user,
                   loading, nav, effect_pending, reload, last_auth, last_response>>
    /\ UNCHANGED notAuthVars

\* login resolved: the server issued an access token, setToken stores it.
LoginResolved(i, access_token) ==
    /\ api_requests[i].endpoint = "/admin/login"
    /\ server_accepts' = TRUE
    /\ token' = SetToken(access_token).token
    /\ local_storage' = SetToken(access_token).storage
    /\ auth_cleared' = FALSE
    /\ last_response' = Responded(200, NULL, SetToken(access_token))
    /\ api_requests' = Remove(api_requests, i)
    /\ UNCHANGED <<api_sent, pathname, user, loading, nav, effect_pending, reload,
                   last_auth>>
    /\ UNCHANGED notAuthVars

\* login answered 401 (wrong credentials): the token is cleared,
\* window.location.href is set and 'Unauthorized' is thrown.
LoginUnauthorized(i) ==
    /\ api_requests[i].endpoint = "/admin/login"
    /\ token' = ClearToken.token
    /\ local_storage' = ClearToken.storage
    /\ auth_cleared' = TRUE
    /\ reload' = TRUE
    /\ last_response' = Responded(401, "Unauthorized", ClearToken)
    /\ api_requests' = Remove(api_requests, i)
    /\ UNCHANGED <<server_accepts, api_sent, pathname, user, loading, nav,
                   effect_pending, last_auth>>
    /\ UNCHANGED notAuthVars

\* handleLogout, from the Logout button of the rendered layout.
HandleLogout ==
    /\ ChildrenRendered
    /\ token' = ClearToken.token
    /\ local_storage' = ClearToken.storage
    /\ auth_cleared' = TRUE
    /\ nav' = "/admin/login"
    /\ last_auth' = "logout"
    /\ UNCHANGED <<server_accepts, api_requests, api_sent, pathname, user, loading,
                   effect_pending, reload, last_response>>
    /\ UNCHANGED notAuthVars

\* router.push takes effect: the pathname changes and the effect is due.
RouterNavigate ==
    /\ nav # NULL
    /\ pathname' = nav
    /\ nav' = NULL
    /\ effect_pending' = (effect_pending \/ nav # pathname)
    /\ UNCHANGED <<token, local_storage, server_accepts, auth_cleared, api_requests,
                   api_sent, user, loading, reload, last_auth, last_response>>
    /\ UNCHANGED notAuthVars

\* The administrator follows a link of the admin area or goes back in the
\* browser history: a client-side navigation, the layout stays mounted.
Navigate(path) ==
    /\ path # pathname
    /\ pathname' = path
    /\ effect_pending' = TRUE
    /\ UNCHANGED <<token, local_storage, server_accepts, auth_cleared, api_requests,
                   api_sent, user, loading, nav, reload, last_auth, last_response>>
    /\ UNCHANGED notAuthVars

\* window.location.href = '/admin/login' takes effect: the document is
\* loaded anew, the client is constructed from localStorage and the layout
\* is mounted with its initial state; pending callbacks are gone.
PageReload ==
    /\ reload
    /\ reload' = FALSE
    /\ pathname' = "/admin/login"
    /\ token' = local_storage
    /\ user' = NULL
    /\ loading' = TRUE
    /\ nav' = NULL
    /\ effect_pending' = TRUE
    /\ api_requests' = << >>
    /\ UNCHANGED <<local_storage, server_accepts, auth_cleared, api_sent, last_auth,
                   last_response>>
    /\ UNCHANGED notAuthVars

\* The server stops accepting the issued token (expiry, revocation).
TokenExpires ==
    /\ server_accepts
    /\ server_accepts' = FALSE
    /\ UNCHANGED <<token, local_storage, auth_cleared, api_requests, api_sent, pathname,
                   user, loading, nav, effect_pending, reload, last_auth, last_response>>
    /\ UNCHANGED notAuthVars

----------------------------------------------------------------------------
(* Admin shoe editor: handleSave, request by request *)

\* Largest number of Save Changes clicks.
MaxEditorSaves == 2

\* Values of the form: the shoe's name and the fit profile's size_runs.
ShoeNames == {"Ghost 15", "Ghost 16"}

\* The state of the shoe on the server when the editor is opened.
SavedShoe == [name |-> "Ghost 15", size_runs |-> "true_to_size"]

\* handleSave up to the first await: setSaving(true), the payloads are built
\* from the form and adminApi.updateShoe sends its PUT.  The button is
\* disabled while saving.
HandleSaveStart(name, size_runs) ==
    /\ ~saving
    /\ editor_saves < MaxEditorSaves
    /\ saving' = TRUE
    /\ editor_saves' = editor_saves + 1
    /\ save_form' = [name |-> name, size_runs |-> size_runs]
    /\ save_before' = server_shoe
    /\ save_pc' = "updateShoe"
    /\ save_toast' = NULL
    /\ UNCHANGED server_shoe
    /\ UNCHANGED notEditorVars

\* PUT /admin/shoes/{id} reaches the server: the shoe attributes are written.
UpdateShoeEndpoint ==
    /\ save_pc = "updateShoe"
    /\ server_shoe' = [server_shoe EXCEPT !.name = save_form.name]
    /\ save_pc' = "updateShoe handled"
    /\ UNCHANGED <<saving, editor_saves, save_form, save_before, save_toast>>
    /\ UNCHANGED notEditorVars

\* updateShoe resolved: adminApi.updateFitProfile sends its POST.
UpdateShoeResolved ==
    /\ save_pc = "updateShoe handled"
    /\ save_pc' = "updateFitProfile"
    /\ UNCHANGED <<saving, editor_saves, save_form, save_before, save_toast, server_shoe>>
    /\ UNCHANGED notEditorVars

\* POST /admin/shoes/{id}/fit-profile reaches the server: the fit profile is
\* written.
UpdateFitProfileEndpoint ==
    /\ save_pc = "updateFitProfile"
    /\ server_shoe' = [server_shoe EXCEPT !.size_runs = save_form.size_runs]
    /\ save_pc' = "updateFitProfile handled"
    /\ UNCHANGED <<saving, editor_saves, save_form, save_before, save_toast>>
    /\ UNCHANGED notEditorVars

\* updateFitProfile resolved: the 'Saved' toast; finally setSaving(false).
UpdateFitProfileResolved ==
    /\ save_pc = "updateFitProfile handled"
    /\ save_toast' = "Shoe updated successfully"
    /\ saving' = FALSE
    /\ save_pc' = "idle"
    /\ UNCHANGED <<editor_saves, save_form, save_before, server_shoe>>
    /\ UNCHANGED notEditorVars

\* Either request threw (the request or its response was lost, or the server
\* answered with an error before writing): the catch branch shows 'Failed to
\* save changes'; finally setSaving(false).
HandleSaveRejected ==
    /\ save_pc \in {"updateShoe", "updateShoe handled",
                    "updateFitProfile", "updateFitProfile handled"}
    /\ save_toast' = "Failed to save changes"
    /\ saving' = FALSE
    /\ save_pc' = "idle"
    /\ UNCHANGED <<editor_saves, save_form, save_before, server_shoe>>
    /\ UNCHANGED notEditorVars

----------------------------------------------------------------------------
(* Review pagination: RunningWarehouseScraper.scrape_reviews *)

\* Largest number of review pages a product has on the source's site.
MaxSitePages == 52

\* if page > 50: the safety limit of the pagination loop.
SafetyLimit == 50

\* soup.select(review_container) on the given page of the site: the number
\* of review elements found.
ReviewElements(page) == IF page <= site_pages THEN 1 ELSE 0

NewPager == [page |-> 1, reviews |-> 0, fetched |-> 0, pc |-> "loop"]

\* A plausible slip: the loop has no safety limit and ends at an empty page
\* only.
ScrapeReviewsNoCeiling(st, review_elements) ==
    IF review_elements = 0
    THEN [st EXCEPT !.fetched = @ + 1, !.pc = "done"]
    ELSE [st EXCEPT !.fetched = @ + 1,
                    !.reviews = @ + review_elements,
                    !.page = @ + 1]

\* One iteration of the while loop of scrape_reviews: the page is fetched;
\* an empty page ends the loop, otherwise its reviews are appended, page is
\* incremented and the loop ends when page exceeds the safety limit.
scrape_reviews(st, review_elements) ==
    IF review_elements = 0
    THEN [st EXCEPT !.fetched = @ + 1, !.pc = "done"]
    ELSE [st EXCEPT !.fetched = @ + 1,
                    !.reviews = @ + review_elements,
                    !.page = @ + 1,
                    !.pc = IF st.page + 1 > SafetyLimit THEN "done" ELSE "loop"]

\* self.client.get returned the page.
FetchPage ==
    /\ pager.pc = "loop"
    /\ pager' = scrape_reviews(pager, ReviewElements(pager.page))
    /\ UNCHANGED site_pages
    /\ UNCHANGED notPageVars

\* self.client.get raised (the 30 s timeout, a connection error): the
\* exception leaves scrape_reviews.
FetchRaises ==
    /\ pager.pc = "loop"
    /\ pager' = [pager EXCEPT !.fetched = @ + 1, !.pc = "raised"]
    /\ UNCHANGED site_pages
    /\ UNCHANGED notPageVars

----------------------------------------------------------------------------
(* Weight optimizer: when a run is triggered *)

\* Largest number of unconsumed training examples, of Retrain Model clicks
\* and of optimization runs started.
MaxPendingExamples == 51

MaxRetrainClicks == 1

MaxRetrainRuns == 2

\* disabled={pendingExamples < 50}: the configured minimum batch.
MinExamples == 50

NoRetrain == [pc |-> "idle", batch |-> 0]

\* A plausible slip: the server starts a run on every trigger it receives.
RunMayStartAlways(n) == TRUE

\* The server starts a run only once the minimum number of unconsumed
\* training examples has accumulated.
RunMayStart(n) == n >= MinExamples

\* A run starts on the batch of unconsumed examples, which it consumes.
StartRun ==
    /\ retrain.pc = "idle"
    /\ Len(retrain_log) < MaxRetrainRuns
    /\ retrain' = [pc |-> "running", batch |-> unconsumed]
    /\ retrain_log' = Append(retrain_log, unconsumed)
    /\ unconsumed' = 0

\* A review decision is stored as a training example.
RecordExample ==
    /\ unconsumed < MaxPendingExamples
    /\ unconsumed' = unconsumed + 1
    /\ UNCHANGED <<pendingExamples, retrain_clicks, retrain_requests, retrain,
                   retrain_log, retrain_refused, train_active>>
    /\ UNCHANGED notTrainVars

\* The training dashboard loads its stats: "{pendingExamples} new examples
\* since last training".
LoadStats ==
    /\ pendingExamples # unconsumed
    /\ pendingExamples' = unconsumed
    /\ UNCHANGED <<unconsumed, retrain_clicks, retrain_requests, retrain, retrain_log,
                   retrain_refused, train_active>>
    /\ UNCHANGED notTrainVars

\* triggerRetrain: the Retrain Model button, enabled from 50 pending
\* examples on, sends the trigger.
TriggerRetrain ==
    /\ ~(pendingExamples < MinExamples)
    /\ retrain_clicks < MaxRetrainClicks
    /\ retrain_clicks' = retrain_clicks + 1
    /\ retrain_requests' = retrain_requests + 1
    /\ UNCHANGED <<unconsumed, pendingExamples, retrain, retrain_log, retrain_refused,
                   train_active>>
    /\ UNCHANGED notTrainVars

\* The trigger reaches the server: a run starts when enough unconsumed
\* examples have accumulated and no run is under way.
RetrainEndpoint ==
    /\ retrain_requests > 0
    /\ retrain_requests' = retrain_requests - 1
    /\ IF RunMayStart(unconsumed) /\ retrain.pc = "idle"
       THEN /\ StartRun
            /\ UNCHANGED retrain_refused
       ELSE /\ retrain_refused' = retrain_refused + 1
            /\ UNCHANGED <<unconsumed, retrain, retrain_log>>
    /\ UNCHANGED <<pendingExamples, retrain_clicks, train_active>>
    /\ UNCHANGED notTrainVars

\* Periodic Weight Update (when N > threshold).
PeriodicWeightUpdate ==
    /\ unconsumed > MinExamples
    /\ StartRun
    /\ UNCHANGED <<pendingExamples, retrain_clicks, retrain_requests, retrain_refused,
                   train_active>>
    /\ UNCHANGED notTrainVars

\* The run ends with a promotion: the active pointer moves to the new vector.
RetrainPromote ==
    /\ retrain.pc = "running"
    /\ train_active' = train_active + 1
    /\ retrain' = NoRetrain
    /\ UNCHANGED <<unconsumed, pendingExamples, retrain_clicks, retrain_requests,
                   retrain_log, retrain_refused>>
    /\ UNCHANGED notTrainVars

\* The run ends without a promotion.
RetrainReject ==
    /\ retrain.pc = "running"
    /\ retrain' = NoRetrain
    /\ UNCHANGED <<unconsumed, pendingExamples, retrain_clicks, retrain_requests,
                   retrain_log, retrain_refused, train_active>>
    /\ UNCHANGED notTrainVars

----------------------------------------------------------------------------
(* Specifications *)

vars ==
    <<scoreVars, ingestVars, optVars, serveVars, reviewVars, adminVars, quizVars, authVars, editorVars, pageVars, trainVars>>

IngestInit ==
    /\ user_profile = NULL
    /\ weights = DEFAULT_WEIGHTS
    /\ shoes = << >>
    /\ calls = 0
    /\ ranked = << >>
    /\ again = << >>
    /\ shoe_reviews = [k \in ReviewKeys |-> 0]
    /\ shoe_fit_profiles =
          [s \in ShoeIds |-> IF s = "s1" THEN ReviewedProfile ELSE EmptyProfile]
    /\ runs = << >>
    /\ extract_queue = [s \in ShoeIds |-> 0]
    /\ extracts = << >>
    /\ offered = {}
    /\ error_log = 0
    /\ raised = 0
    /\ delayed = [s \in ShoeIds |-> 0]
    /\ last_extract = NoExtract
    /\ weight_history = << >>
    /\ active = 0
    /\ tolerance = 0
    /\ opt = << >>
    /\ opt_log = << >>
    /\ opt_runs = 0
    /\ optimizer = << >>
    /\ request = << >>
    /\ served = 0
    /\ recommendations = {}
    /\ submitting = NULL
    /\ review_calls = << >>
    /\ clicks = 0
    /\ review_status = << >>
    /\ decisions = << >>
    /\ training_examples = << >>
    /\ overrides = [s \in ShoeIds |-> {}]
    /\ saves = 0
    /\ sessionId = NULL
    /\ currentQuestionIndex = 0
    /\ answers = << >>
    /\ previousShoes = << >>
    /\ isLoading = FALSE
    /\ error = NULL
    /\ isComplete = FALSE
    /\ recommendationId = NULL
    /\ shoe_list = << >>
    /\ quiz_calls = << >>
    /\ session_answers = {}
    /\ effect_deps = << >>
    /\ quiz_log = << >>
    /\ token = NULL
    /\ local_storage = NULL
    /\ server_accepts = FALSE
    /\ auth_cleared = FALSE
    /\ api_requests = << >>
    /\ api_sent = 0
    /\ pathname = NULL
    /\ user = NULL
    /\ loading = FALSE
    /\ nav = NULL
    /\ effect_pending = FALSE
    /\ reload = FALSE
    /\ last_auth = NULL
    /\ last_response = << >>
    /\ saving = FALSE
    /\ editor_saves = 0
    /\ save_form = << >>
    /\ save_before = << >>
    /\ save_pc = NULL
    /\ save_toast = NULL
    /\ server_shoe = << >>
    /\ pager = << >>
    /\ site_pages = 0
    /\ unconsumed = 0
    /\ pendingExamples = 0
    /\ retrain_clicks = 0
    /\ retrain_requests = 0
    /\ retrain = << >>
    /\ retrain_log = << >>
    /\ retrain_refused = 0
    /\ train_active = 0

\* Every exception of a source takes the same except branch; the kinds of
\* failure are told apart in RetryNext.
IngestNext ==
    \/ \E s \in ShoeIds : StartScrape(s)
    \/ \E r \in DOMAIN runs : ScrapeSourceOk(r)
    \/ \E r \in DOMAIN runs, failure \in TransientFailures :
          ScrapeSourceFails(r, failure)
    \/ \E r \in DOMAIN runs : ScrapeTrigger(r)
    \/ \E s \in ShoeIds : ExtractStart(s)
    \/ \E i \in DOMAIN extracts : ExtractStore(i)
    \/ \E i \in DOMAIN extracts : ExtractRaises(i)

SpecScore == ScoreInit /\ [][ScoreNext]_vars

SpecIngest == IngestInit /\ [][IngestNext]_vars

\* The task scrape_shoe_reviews alone, its sources failing in either way.
RetryNext ==
    \/ \E s \in ShoeIds : StartScrape(s)
    \/ \E r \in DOMAIN runs : ScrapeSourceOk(r)
    \/ \E r \in DOMAIN runs, failure \in TransientFailures \cup PermanentFailures :
          ScrapeSourceFails(r, failure)
    \/ \E r \in DOMAIN runs : ScrapeTrigger(r)

SpecRetry == IngestInit /\ [][RetryNext]_vars

OverrideNext ==
    \/ IngestNext
    \/ \E s \in ShoeIds, field \in OverrideFields :
          \E value \in FieldOptions(field) : HandleSave(s, field, value)

SpecOverride == IngestInit /\ [][OverrideNext]_vars

OptInit ==
    /\ user_profile = NULL
    /\ weights = DEFAULT_WEIGHTS
    /\ shoes = << >>
    /\ calls = 0
    /\ ranked = << >>
    /\ again = << >>
    /\ shoe_reviews = << >>
    /\ shoe_fit_profiles = << >>
    /\ runs = << >>
    /\ extract_queue = << >>
    /\ extracts = << >>
    /\ offered = {}
    /\ error_log = 0
    /\ raised = 0
    /\ delayed = << >>
    /\ last_extract = << >>
    /\ weight_history = <<ToFixed(DEFAULT_WEIGHTS)>>
    /\ active = 1
    /\ tolerance \in Tolerances
    /\ opt = OptIdle
    /\ opt_log = << >>
    /\ opt_runs = 0
    /\ optimizer = << >>
    /\ request = << >>
    /\ served = 0
    /\ recommendations = {}
    /\ submitting = NULL
    /\ review_calls = << >>
    /\ clicks = 0
    /\ review_status = << >>
    /\ decisions = << >>
    /\ training_examples = << >>
    /\ overrides = << >>
    /\ saves = 0
    /\ sessionId = NULL
    /\ currentQuestionIndex = 0
    /\ answers = << >>
    /\ previousShoes = << >>
    /\ isLoading = FALSE
    /\ error = NULL
    /\ isComplete = FALSE
    /\ recommendationId = NULL
    /\ shoe_list = << >>
    /\ quiz_calls = << >>
    /\ session_answers = {}
    /\ effect_deps = << >>
    /\ quiz_log = << >>
    /\ token = NULL
    /\ local_storage = NULL
    /\ server_accepts = FALSE
    /\ auth_cleared = FALSE
    /\ api_requests = << >>
    /\ api_sent = 0
    /\ pathname = NULL
    /\ user = NULL
    /\ loading = FALSE
    /\ nav = NULL
    /\ effect_pending = FALSE
    /\ reload = FALSE
    /\ last_auth = NULL
    /\ last_response = << >>
    /\ saving = FALSE
    /\ editor_saves = 0
    /\ save_form = << >>
    /\ save_before = << >>
    /\ save_pc = NULL
    /\ save_toast = NULL
    /\ server_shoe = << >>
    /\ pager = << >>
    /\ site_pages = 0
    /\ unconsumed = 0
    /\ pendingExamples = 0
    /\ retrain_clicks = 0
    /\ retrain_requests = 0
    /\ retrain = << >>
    /\ retrain_log = << >>
    /\ retrain_refused = 0
    /\ train_active = 0

OptNext ==
    \/ \E examples \in Batches : OptPropose(examples)
    \/ \E n \in HeldOutSizes : \E p, a \in [1..n -> Ndcgs] : OptEvaluate(p, a)
    \/ OptEvaluateRaises
    \/ OptPromote
    \/ OptReject

SpecOpt == OptInit /\ [][OptNext]_vars

ServeInit ==
    /\ user_profile = NULL
    /\ weights = DEFAULT_WEIGHTS
    /\ shoes = << >>
    /\ calls = 0
    /\ ranked = << >>
    /\ again = << >>
    /\ shoe_reviews = << >>
    /\ shoe_fit_profiles = << >>
    /\ runs = << >>
    /\ extract_queue = << >>
    /\ extracts = << >>
    /\ offered = {}
    /\ error_log = 0
    /\ raised = 0
    /\ delayed = << >>
    /\ last_extract = << >>
    /\ weight_history = <<ToFixed(DEFAULT_WEIGHTS)>>
    /\ active = 1
    /\ tolerance = 0
    /\ opt = OptIdle
    /\ opt_log = << >>
    /\ opt_runs = 0
    /\ optimizer = OptimizerIdle
    /\ request = RequestIdle
    /\ served = 0
    /\ recommendations = {}
    /\ submitting = NULL
    /\ review_calls = << >>
    /\ clicks = 0
    /\ review_status = << >>
    /\ decisions = << >>
    /\ training_examples = << >>
    /\ overrides = << >>
    /\ saves = 0
    /\ sessionId = NULL
    /\ currentQuestionIndex = 0
    /\ answers = << >>
    /\ previousShoes = << >>
    /\ isLoading = FALSE
    /\ error = NULL
    /\ isComplete = FALSE
    /\ recommendationId = NULL
    /\ shoe_list = << >>
    /\ quiz_calls = << >>
    /\ session_answers = {}
    /\ effect_deps = << >>
    /\ quiz_log = << >>
    /\ token = NULL
    /\ local_storage = NULL
    /\ server_accepts = FALSE
    /\ auth_cleared = FALSE
    /\ api_requests = << >>
    /\ api_sent = 0
    /\ pathname = NULL
    /\ user = NULL
    /\ loading = FALSE
    /\ nav = NULL
    /\ effect_pending = FALSE
    /\ reload = FALSE
    /\ last_auth = NULL
    /\ last_response = << >>
    /\ saving = FALSE
    /\ editor_saves = 0
    /\ save_form = << >>
    /\ save_before = << >>
    /\ save_pc = NULL
    /\ save_toast = NULL
    /\ server_shoe = << >>
    /\ pager = << >>
    /\ site_pages = 0
    /\ unconsumed = 0
    /\ pendingExamples = 0
    /\ retrain_clicks = 0
    /\ retrain_requests = 0
    /\ retrain = << >>
    /\ retrain_log = << >>
    /\ retrain_refused = 0
    /\ train_active = 0

ServeNext ==
    \/ \E examples \in Batches : OptimizerStart(examples)
    \/ \E factor \in Factors : OptimizerAdjust(factor)
    \/ OptimizerReturn
    \/ \E p, a \in [1..1 -> Ndcgs] : OptEvaluate(p, a)
    \/ OptPromote
    \/ OptReject
    \/ RequestStart
    \/ RequestRead

SpecServe == ServeInit /\ [][ServeNext]_vars

ReviewInit ==
    /\ user_profile = NULL
    /\ weights = DEFAULT_WEIGHTS
    /\ shoes = << >>
    /\ calls = 0
    /\ ranked = << >>
    /\ again = << >>
    /\ shoe_reviews = << >>
    /\ shoe_fit_profiles = << >>
    /\ runs = << >>
    /\ extract_queue = << >>
    /\ extracts = << >>
    /\ offered = {}
    /\ error_log = 0
    /\ raised = 0
    /\ delayed = << >>
    /\ last_extract = << >>
    /\ weight_history = << >>
    /\ active = 0
    /\ tolerance = 0
    /\ opt = << >>
    /\ opt_log = << >>
    /\ opt_runs = 0
    /\ optimizer = << >>
    /\ request = << >>
    /\ served = 0
    /\ recommendations = RecommendationIds
    /\ submitting = NULL
    /\ review_calls = << >>
    /\ clicks = 0
    /\ review_status = [id \in RecommendationIds |-> "pending"]
    /\ decisions = << >>
    /\ training_examples = << >>
    /\ overrides = << >>
    /\ saves = 0
    /\ sessionId = NULL
    /\ currentQuestionIndex = 0
    /\ answers = << >>
    /\ previousShoes = << >>
    /\ isLoading = FALSE
    /\ error = NULL
    /\ isComplete = FALSE
    /\ recommendationId = NULL
    /\ shoe_list = << >>
    /\ quiz_calls = << >>
    /\ session_answers = {}
    /\ effect_deps = << >>
    /\ quiz_log = << >>
    /\ token = NULL
    /\ local_storage = NULL
    /\ server_accepts = FALSE
    /\ auth_cleared = FALSE
    /\ api_requests = << >>
    /\ api_sent = 0
    /\ pathname = NULL
    /\ user = NULL
    /\ loading = FALSE
    /\ nav = NULL
    /\ effect_pending = FALSE
    /\ reload = FALSE
    /\ last_auth = NULL
    /\ last_response = << >>
    /\ saving = FALSE
    /\ editor_saves = 0
    /\ save_form = << >>
    /\ save_before = << >>
    /\ save_pc = NULL
    /\ save_toast = NULL
    /\ server_shoe = << >>
    /\ pager = << >>
    /\ site_pages = 0
    /\ unconsumed = 0
    /\ pendingExamples = 0
    /\ retrain_clicks = 0
    /\ retrain_requests = 0
    /\ retrain = << >>
    /\ retrain_log = << >>
    /\ retrain_refused = 0
    /\ train_active = 0

ReviewNext ==
    \/ \E id \in RecommendationIds, status \in PageStatuses : HandleReview(id, status)
    \/ \E i \in DOMAIN review_calls : ReviewEndpoint(i)
    \/ \E i \in DOMAIN review_calls : HandleReviewResolved(i)
    \/ \E i \in DOMAIN review_calls : HandleReviewRejected(i)

SpecReview == ReviewInit /\ [][ReviewNext]_vars

QuizInit ==
    /\ user_profile = NULL
    /\ weights = DEFAULT_WEIGHTS
    /\ shoes = << >>
    /\ calls = 0
    /\ ranked = << >>
    /\ again = << >>
    /\ shoe_reviews = << >>
    /\ shoe_fit_profiles = << >>
    /\ runs = << >>
    /\ extract_queue = << >>
    /\ extracts = << >>
    /\ offered = {}
    /\ error_log = 0
    /\ raised = 0
    /\ delayed = << >>
    /\ last_extract = << >>
    /\ weight_history = << >>
    /\ active = 0
    /\ tolerance = 0
    /\ opt = << >>
    /\ opt_log = << >>
    /\ opt_runs = 0
    /\ optimizer = << >>
    /\ request = << >>
    /\ served = 0
    /\ recommendations = {}
    /\ submitting = NULL
    /\ review_calls = << >>
    /\ clicks = 0
    /\ review_status = << >>
    /\ decisions = << >>
    /\ training_examples = << >>
    /\ overrides = << >>
    /\ saves = 0
    /\ sessionId = NULL
    /\ currentQuestionIndex = 0
    /\ answers = NoAnswers
    /\ previousShoes = << >>
    /\ isLoading = FALSE
    /\ error = NULL
    /\ isComplete = FALSE
    /\ recommendationId = NULL
    /\ shoe_list = << >>
    /\ quiz_calls = << >>
    /\ session_answers = {}
    /\ effect_deps = << >>
    /\ quiz_log = QuizLogInit
    /\ token = NULL
    /\ local_storage = NULL
    /\ server_accepts = FALSE
    /\ auth_cleared = FALSE
    /\ api_requests = << >>
    /\ api_sent = 0
    /\ pathname = NULL
    /\ user = NULL
    /\ loading = FALSE
    /\ nav = NULL
    /\ effect_pending = FALSE
    /\ reload = FALSE
    /\ last_auth = NULL
    /\ last_response = << >>
    /\ saving = FALSE
    /\ editor_saves = 0
    /\ save_form = << >>
    /\ save_before = << >>
    /\ save_pc = NULL
    /\ save_toast = NULL
    /\ server_shoe = << >>
    /\ pager = << >>
    /\ site_pages = 0
    /\ unconsumed = 0
    /\ pendingExamples = 0
    /\ retrain_clicks = 0
    /\ retrain_requests = 0
    /\ retrain = << >>
    /\ retrain_log = << >>
    /\ retrain_refused = 0
    /\ train_active = 0

QuizNext ==
    \/ StartQuiz
    \/ \E i \in DOMAIN quiz_calls : StartQuizResolved(i)
    \/ \E i \in DOMAIN quiz_calls : StartQuizRejected(i)
    \/ \E q \in QuestionIds, a \in AnswerOptions : SubmitAnswer(q, a)
    \/ \E i \in DOMAIN quiz_calls : SubmitAnswerResolved(i)
    \/ \E i \in DOMAIN quiz_calls : SubmitAnswerRejected(i)
    \/ GoBack
    \/ AddPreviousShoe([name |-> "old pair", liked |-> TRUE])
    \/ \E index \in 0..(MaxPreviousShoes - 1) : RemovePreviousShoe(index)
    \/ QuizEffect
    \/ \E i \in DOMAIN quiz_calls, shoe_ids \in ShoeLists : GetRecommendationsResolved(i, shoe_ids)
    \/ \E i \in DOMAIN quiz_calls : GetRecommendationsRejected(i)

SpecQuiz == QuizInit /\ [][QuizNext]_vars

\* The quiz page driven by clicks only.
PageNext ==
    \/ StartQuiz
    \/ \E i \in DOMAIN quiz_calls : StartQuizResolved(i)
    \/ \E value \in OptionsOf("q1") \cup OptionsOf("q2") : HandleOptionSelect(value)
    \/ HandleMultiSelectSubmit
    \/ \E i \in DOMAIN quiz_calls : SubmitAnswerResolved(i)
    \/ \E i \in DOMAIN quiz_calls : SubmitAnswerRejected(i)
    \/ PageGoBack

SpecPage == QuizInit /\ [][PageNext]_vars

\* The administrator opens /admin with a token of an earlier login stored.
AuthInit ==
    /\ user_profile = NULL
    /\ weights = DEFAULT_WEIGHTS
    /\ shoes = << >>
    /\ calls = 0
    /\ ranked = << >>
    /\ again = << >>
    /\ shoe_reviews = [k \in ReviewKeys |-> 0]
    /\ shoe_fit_profiles =
          [s \in ShoeIds |-> IF s = "s1" THEN ReviewedProfile ELSE EmptyProfile]
    /\ runs = << >>
    /\ extract_queue = [s \in ShoeIds |-> 0]
    /\ extracts = << >>
    /\ offered = {}
    /\ error_log = 0
    /\ raised = 0
    /\ delayed = [s \in ShoeIds |-> 0]
    /\ last_extract = NoExtract
    /\ weight_history = << >>
    /\ active = 0
    /\ tolerance = 0
    /\ opt = << >>
    /\ opt_log = << >>
    /\ opt_runs = 0
    /\ optimizer = << >>
    /\ request = << >>
    /\ served = 0
    /\ recommendations = {}
    /\ submitting = NULL
    /\ review_calls = << >>
    /\ clicks = 0
    /\ review_status = << >>
    /\ decisions = << >>
    /\ training_examples = << >>
    /\ overrides = [s \in ShoeIds |-> {}]
    /\ saves = 0
    /\ sessionId = NULL
    /\ currentQuestionIndex = 0
    /\ answers = << >>
    /\ previousShoes = << >>
    /\ isLoading = FALSE
    /\ error = NULL
    /\ isComplete = FALSE
    /\ recommendationId = NULL
    /\ shoe_list = << >>
    /\ quiz_calls = << >>
    /\ session_answers = {}
    /\ effect_deps = << >>
    /\ quiz_log = << >>
    /\ token = "t1"
    /\ local_storage = "t1"
    /\ server_accepts = TRUE
    /\ auth_cleared = FALSE
    /\ api_requests = << >>
    /\ api_sent = 0
    /\ pathname = "/admin"
    /\ user = NULL
    /\ loading = TRUE
    /\ nav = NULL
    /\ effect_pending = TRUE
    /\ reload = FALSE
    /\ last_auth = "none"
    /\ last_response = NoResponse
    /\ saving = FALSE
    /\ editor_saves = 0
    /\ save_form = << >>
    /\ save_before = << >>
    /\ save_pc = NULL
    /\ save_toast = NULL
    /\ server_shoe = << >>
    /\ pager = << >>
    /\ site_pages = 0
    /\ unconsumed = 0
    /\ pendingExamples = 0
    /\ retrain_clicks = 0
    /\ retrain_requests = 0
    /\ retrain = << >>
    /\ retrain_log = << >>
    /\ retrain_refused = 0
    /\ train_active = 0

AuthNext ==
    \/ LayoutEffect
    \/ \E i \in DOMAIN api_requests : CheckAuthResolved(i)
    \/ \E i \in DOMAIN api_requests : CheckAuthUnauthorized(i)
    \/ \E i \in DOMAIN api_requests : CheckAuthFails(i)
    \/ Login
    \/ \E i \in DOMAIN api_requests, t \in AccessTokens : LoginResolved(i, t)
    \/ \E i \in DOMAIN api_requests : LoginUnauthorized(i)
    \/ HandleLogout
    \/ RouterNavigate
    \/ \E path \in Paths : Navigate(path)
    \/ PageReload
    \/ TokenExpires

SpecAuth == AuthInit /\ [][AuthNext]_vars

\* The editor has loaded the shoe; nothing has been saved yet.
EditorInit ==
    /\ user_profile = NULL
    /\ weights = DEFAULT_WEIGHTS
    /\ shoes = << >>
    /\ calls = 0
    /\ ranked = << >>
    /\ again = << >>
    /\ shoe_reviews = [k \in ReviewKeys |-> 0]
    /\ shoe_fit_profiles =
          [s \in ShoeIds |-> IF s = "s1" THEN ReviewedProfile ELSE EmptyProfile]
    /\ runs = << >>
    /\ extract_queue = [s \in ShoeIds |-> 0]
    /\ extracts = << >>
    /\ offered = {}
    /\ error_log = 0
    /\ raised = 0
    /\ delayed = [s \in ShoeIds |-> 0]
    /\ last_extract = NoExtract
    /\ weight_history = << >>
    /\ active = 0
    /\ tolerance = 0
    /\ opt = << >>
    /\ opt_log = << >>
    /\ opt_runs = 0
    /\ optimizer = << >>
    /\ request = << >>
    /\ served = 0
    /\ recommendations = {}
    /\ submitting = NULL
    /\ review_calls = << >>
    /\ clicks = 0
    /\ review_status = << >>
    /\ decisions = << >>
    /\ training_examples = << >>
    /\ overrides = [s \in ShoeIds |-> {}]
    /\ saves = 0
    /\ sessionId = NULL
    /\ currentQuestionIndex = 0
    /\ answers = << >>
    /\ previousShoes = << >>
    /\ isLoading = FALSE
    /\ error = NULL
    /\ isComplete = FALSE
    /\ recommendationId = NULL
    /\ shoe_list = << >>
    /\ quiz_calls = << >>
    /\ session_answers = {}
    /\ effect_deps = << >>
    /\ quiz_log = << >>
    /\ token = NULL
    /\ local_storage = NULL
    /\ server_accepts = FALSE
    /\ auth_cleared = FALSE
    /\ api_requests = << >>
    /\ api_sent = 0
    /\ pathname = NULL
    /\ user = NULL
    /\ loading = FALSE
    /\ nav = NULL
    /\ effect_pending = FALSE
    /\ reload = FALSE
    /\ last_auth = NULL
    /\ last_response = << >>
    /\ saving = FALSE
    /\ editor_saves = 0
    /\ save_form = SavedShoe
    /\ save_before = SavedShoe
    /\ save_pc = "idle"
    /\ save_toast = NULL
    /\ server_shoe = SavedShoe
    /\ pager = << >>
    /\ site_pages = 0
    /\ unconsumed = 0
    /\ pendingExamples = 0
    /\ retrain_clicks = 0
    /\ retrain_requests = 0
    /\ retrain = << >>
    /\ retrain_log = << >>
    /\ retrain_refused = 0
    /\ train_active = 0

EditorNext ==
    \/ \E name \in ShoeNames, size_runs \in SIZE_RUNS : HandleSaveStart(name, size_runs)
    \/ UpdateShoeEndpoint
    \/ UpdateShoeResolved
    \/ UpdateFitProfileEndpoint
    \/ UpdateFitProfileResolved
    \/ HandleSaveRejected

SpecEditor == EditorInit /\ [][EditorNext]_vars

\* scrape_reviews is called for a product whose site has any number of review pages.
PaginateInit ==
    /\ user_profile = NULL
    /\ weights = DEFAULT_WEIGHTS
    /\ shoes = << >>
    /\ calls = 0
    /\ ranked = << >>
    /\ again = << >>
    /\ shoe_reviews = [k \in ReviewKeys |-> 0]
    /\ shoe_fit_profiles =
          [s \in ShoeIds |-> IF s = "s1" THEN ReviewedProfile ELSE EmptyProfile]
    /\ runs = << >>
    /\ extract_queue = [s \in ShoeIds |-> 0]
    /\ extracts = << >>
    /\ offered = {}
    /\ error_log = 0
    /\ raised = 0
    /\ delayed = [s \in ShoeIds |-> 0]
    /\ last_extract = NoExtract
    /\ weight_history = << >>
    /\ active = 0
    /\ tolerance = 0
    /\ opt = << >>
    /\ opt_log = << >>
    /\ opt_runs = 0
    /\ optimizer = << >>
    /\ request = << >>
    /\ served = 0
    /\ recommendations = {}
    /\ submitting = NULL
    /\ review_calls = << >>
    /\ clicks = 0
    /\ review_status = << >>
    /\ decisions = << >>
    /\ training_examples = << >>
    /\ overrides = [s \in ShoeIds |-> {}]
    /\ saves = 0
    /\ sessionId = NULL
    /\ currentQuestionIndex = 0
    /\ answers = << >>
    /\ previousShoes = << >>
    /\ isLoading = FALSE
    /\ error = NULL
    /\ isComplete = FALSE
    /\ recommendationId = NULL
    /\ shoe_list = << >>
    /\ quiz_calls = << >>
    /\ session_answers = {}
    /\ effect_deps = << >>
    /\ quiz_log = << >>
    /\ token = NULL
    /\ local_storage = NULL
    /\ server_accepts = FALSE
    /\ auth_cleared = FALSE
    /\ api_requests = << >>
    /\ api_sent = 0
    /\ pathname = NULL
    /\ user = NULL
    /\ loading = FALSE
    /\ nav = NULL
    /\ effect_pending = FALSE
    /\ reload = FALSE
    /\ last_auth = NULL
    /\ last_response = << >>
    /\ saving = FALSE
    /\ editor_saves = 0
    /\ save_form = << >>
    /\ save_before = << >>
    /\ save_pc = NULL
    /\ save_toast = NULL
    /\ server_shoe = << >>
    /\ pager = NewPager
    /\ site_pages \in 0..MaxSitePages
    /\ unconsumed = 0
    /\ pendingExamples = 0
    /\ retrain_clicks = 0
    /\ retrain_requests = 0
    /\ retrain = << >>
    /\ retrain_log = << >>
    /\ retrain_refused = 0
    /\ train_active = 0

PaginateNext ==
    \/ FetchPage
    \/ FetchRaises

\* The loop keeps running: every fetch returns or raises within the
\* client's timeout.
SpecPaginate == PaginateInit /\ [][PaginateNext]_vars /\ WF_vars(PaginateNext)

\* No training example has been stored and no run has started.
TrainInit ==
    /\ user_profile = NULL
    /\ weights = DEFAULT_WEIGHTS
    /\ shoes = << >>
    /\ calls = 0
    /\ ranked = << >>
    /\ again = << >>
    /\ shoe_reviews = [k \in ReviewKeys |-> 0]
    /\ shoe_fit_profiles =
          [s \in ShoeIds |-> IF s = "s1" THEN ReviewedProfile ELSE EmptyProfile]
    /\ runs = << >>
    /\ extract_queue = [s \in ShoeIds |-> 0]
    /\ extracts = << >>
    /\ offered = {}
    /\ error_log = 0
    /\ raised = 0
    /\ delayed = [s \in ShoeIds |-> 0]
    /\ last_extract = NoExtract
    /\ weight_history = << >>
    /\ active = 0
    /\ tolerance = 0
    /\ opt = << >>
    /\ opt_log = << >>
    /\ opt_runs = 0
    /\ optimizer = << >>
    /\ request = << >>
    /\ served = 0
    /\ recommendations = {}
    /\ submitting = NULL
    /\ review_calls = << >>
    /\ clicks = 0
    /\ review_status = << >>
    /\ decisions = << >>
    /\ training_examples = << >>
    /\ overrides = [s \in ShoeIds |-> {}]
    /\ saves = 0
    /\ sessionId = NULL
    /\ currentQuestionIndex = 0
    /\ answers = << >>
    /\ previousShoes = << >>
    /\ isLoading = FALSE
    /\ error = NULL
    /\ isComplete = FALSE
    /\ recommendationId = NULL
    /\ shoe_list = << >>
    /\ quiz_calls = << >>
    /\ session_answers = {}
    /\ effect_deps = << >>
    /\ quiz_log = << >>
    /\ token = NULL
    /\ local_storage = NULL
    /\ server_accepts = FALSE
    /\ auth_cleared = FALSE
    /\ api_requests = << >>
    /\ api_sent = 0
    /\ pathname = NULL
    /\ user = NULL
    /\ loading = FALSE
    /\ nav = NULL
    /\ effect_pending = FALSE
    /\ reload = FALSE
    /\ last_auth = NULL
    /\ last_response = << >>
    /\ saving = FALSE
    /\ editor_saves = 0
    /\ save_form = << >>
    /\ save_before = << >>
    /\ save_pc = NULL
    /\ save_toast = NULL
    /\ server_shoe = << >>
    /\ pager = << >>
    /\ site_pages = 0
    /\ unconsumed = 0
    /\ pendingExamples = 0
    /\ retrain_clicks = 0
    /\ retrain_requests = 0
    /\ retrain = NoRetrain
    /\ retrain_log = << >>
    /\ retrain_refused = 0
    /\ train_active = 0

TrainNext ==
    \/ RecordExample
    \/ LoadStats
    \/ TriggerRetrain
    \/ RetrainEndpoint
    \/ PeriodicWeightUpdate
    \/ RetrainPromote
    \/ RetrainReject

SpecTrain == TrainInit /\ [][TrainNext]_vars

----------------------------------------------------------------------------
(* Scoring engine: properties *)

Ids == 1..Len(shoes)

\* The ranked lists returned so far for the request.
Returned == IF calls = 0 THEN {} ELSE IF calls = 1 THEN {ranked} ELSE {ranked, again}

Appears(list, id) == \E i \in DOMAIN list : list[i].shoe_id = id

RankIn(list, id) == (CHOOSE i \in DOMAIN list : list[i].shoe_id = id)

\* C1: with every weight in the valid range, the final match score of every
\* product in a ranked list lies in [0,1].
C1_ScoreInUnitInterval ==
    ValidWeights(weights) =>
        \A list \in Returned : \A i \in DOMAIN list :
            /\ 0 <= list[i].score.num
            /\ list[i].score.den > 0
            /\ list[i].score.num <= list[i].score.den * Unit

\* A ranked product reaches the upper end of the interval, score exactly 1.0,
\* through a capped issue bonus.
C1_Witness ==
    /\ calls >= 1
    /\ ValidWeights(weights)
    /\ user_profile.foot_issues # << >>
    /\ \E i \in DOMAIN ranked :
          /\ ranked[i].score.num = ranked[i].score.den * Unit
          /\ "overpronation" \in shoes[ranked[i].shoe_id].fit_profile.works_well_for

\* C2: the ranks of a returned list with N entries are exactly 1, 2, ..., N
\* in increasing order, none repeated and none skipped.
C2_RanksGapless ==
    \A list \in Returned : \A i \in DOMAIN list : list[i].rank = i

\* A list of at least two entries whose first two scores are equal.
C2_Witness ==
    /\ calls >= 1
    /\ Len(ranked) >= 2
    /\ ScoreEqual(ranked[1].score, ranked[2].score)

FlaggedTwin(a, b) ==
    /\ \E c \in a.fit_profile.avoid_if :
          /\ \E k \in DOMAIN user_profile.foot_issues : user_profile.foot_issues[k] = c
          /\ c \notin b.fit_profile.avoid_if
          /\ b.fit_profile.avoid_if = a.fit_profile.avoid_if \ {c}
    /\ [a EXCEPT !.fit_profile.avoid_if = {}] = [b EXCEPT !.fit_profile.avoid_if = {}]

\* C8: of two products identical but for a user-stated condition in the
\* avoid_if list of one, the flagged one is never ranked above the other,
\* for every weight vector in the valid range.
C8_AvoidIfNeverOutranks ==
    ValidWeights(weights) =>
        \A list \in Returned : \A a, b \in Ids :
            (FlaggedTwin(shoes[a], shoes[b]) /\ Appears(list, a) /\ Appears(list, b))
                => RankIn(list, a) > RankIn(list, b)

\* Both twins are ranked, the flagged one has the smaller id and also lists
\* the condition under works_well_for.
C8_Witness ==
    /\ calls >= 1
    /\ \E a, b \in Ids :
          /\ a < b
          /\ FlaggedTwin(shoes[a], shoes[b])
          /\ "overpronation" \in shoes[a].fit_profile.works_well_for
          /\ Appears(ranked, a)
          /\ Appears(ranked, b)

----------------------------------------------------------------------------
(* Review ingestion and fit extraction: properties *)

RECURSIVE SumRows(_, _)
SumRows(table, keys) ==
    IF keys = {} THEN 0
    ELSE LET k == CHOOSE x \in keys : TRUE
         IN  table[k] + SumRows(table, keys \ {k})

RECURSIVE SumScraped(_)
SumScraped(rs) ==
    IF rs = << >> THEN 0 ELSE Head(rs).all_reviews + SumScraped(Tail(rs))

DoneRuns(shoe_id) ==
    {r \in DOMAIN runs : runs[r].shoe_id = shoe_id /\ runs[r].pc = "done"}

\* C5: the store holds one RawReview for every (product, source,
\* source-native-id) triple ever ingested and never two, so ingesting a stored
\* triple again adds no row; and the only errors logged are scraper failures,
\* never a repeated review.
C5_ReingestNoOp ==
    /\ \A k \in ReviewKeys : shoe_reviews[k] = IF k \in offered THEN 1 ELSE 0
    /\ error_log = raised

\* Two finished runs of the same shoe scraped more reviews than there are
\* rows: stored triples were ingested again, and no error was logged.
C5_Witness ==
    /\ \E r1, r2 \in DoneRuns("s1") : r1 # r2 /\ runs[r1].all_reviews >= 1
                                             /\ runs[r2].all_reviews >= 1
    /\ SumScraped(runs) >= SumRows(shoe_reviews, ReviewKeys) + 2
    /\ error_log = 0

\* C6: an extraction result that fails schema validation is rejected as a
\* whole: every field of the previous FitProfile keeps its value and
\* needs_review becomes true.
C6_InvalidRejectedWholesale ==
    last_extract.shoe_id # NULL =>
        (~SchemaValid(last_extract.result) =>
            last_extract.after = [last_extract.before EXCEPT !.needs_review = TRUE])

\* C10: every finished ingestion run has made exactly one
\* extract_fit_profile.delay call, made after the last source was handled, and
\* an unfinished run has made none.
C10_OneTriggerPerRun ==
    /\ \A s \in ShoeIds : delayed[s] = Cardinality(DoneRuns(s))
    /\ \A r \in DOMAIN runs : runs[r].pc = "done" => runs[r].sources = << >>

\* A run that stored reviews of both of its sources has finished with its one
\* trigger scheduled.
C10_Witness ==
    /\ \E r \in DoneRuns("s1") : runs[r].all_reviews >= 3
    /\ delayed["s1"] = 1
    /\ shoe_reviews[<<"s1", "running_warehouse", "r1">>] = 1
    /\ shoe_reviews[<<"s1", "fleet_feet", "r1">>] = 1

\* The sources of a run that have been attempted, in order.
Attempted(run) ==
    SubSeq(get_default_sources(CategoryOf(run.shoe_id)), 1,
           Len(get_default_sources(CategoryOf(run.shoe_id))) - Len(run.sources))

\* C11: a source that fails hard does not stop the run: the run never ends as
\* failed, a run that has left the loop has attempted every configured
\* source, the failed ones included, and every review a source returned to
\* the run has been stored.
C11_SourceFailureIsolated ==
    /\ \A r \in DOMAIN runs :
          /\ runs[r].pc \in {"sources", "trigger", "done"}
          /\ runs[r].failed \subseteq Range(Attempted(runs[r]))
          /\ runs[r].pc # "sources" =>
                 Attempted(runs[r]) = get_default_sources(CategoryOf(runs[r].shoe_id))
    /\ \A k \in offered : shoe_reviews[k] >= 1

\* The only run's first source failed; its second source was attempted
\* afterwards, its review is stored and the run is done.
C11_Witness ==
    /\ Len(runs) = 1
    /\ runs[1].shoe_id = "s1"
    /\ runs[1].pc = "done"
    /\ runs[1].failed = {"running_warehouse"}
    /\ runs[1].all_reviews >= 1
    /\ shoe_reviews[<<"s1", "fleet_feet", "r1">>] = 1
    /\ error_log = 1

\* C21: within one run a source whose fetch fails transiently is attempted
\* at most 1 + max_retries times, a source that fails non-transiently is
\* attempted once, and in both cases the source's attempt has ended: the
\* run has moved past the source.
C21_BoundedRetries ==
    \A r \in DOMAIN runs :
        \A source \in DOMAIN runs[r].attempts :
            /\ runs[r].attempts[source] <= 1 + max_retries
            /\ source \in runs[r].failed =>
                   source \notin Range(runs[r].sources)
            /\ source \in runs[r].failed \ runs[r].transient =>
                   runs[r].attempts[source] = 1

\* The only run met a timeout at its first source and a missing selector at
\* its second, and went on to the trigger after one attempt of each.
C21_Witness ==
    /\ Len(runs) = 1
    /\ runs[1].shoe_id = "s1"
    /\ runs[1].pc = "done"
    /\ runs[1].failed = {"running_warehouse", "fleet_feet"}
    /\ runs[1].transient = {"running_warehouse"}
    /\ runs[1].attempts["running_warehouse"] = 1
    /\ runs[1].attempts["fleet_feet"] = 1
    /\ error_log = 2

\* The scrape_shoe_reviews runs and extract_fit_profile tasks of a shoe that a
\* worker has started and not finished.
RunningJobs(shoe_id) ==
    Cardinality({r \in DOMAIN runs :
                    runs[r].shoe_id = shoe_id /\ runs[r].pc \in {"sources", "trigger"}})
    + Cardinality({i \in DOMAIN extracts : extracts[i].shoe_id = shoe_id})

\* C12: no two ingestion or extraction jobs of the same product are running
\* at the same time.
C12_OneJobPerProduct == \A s \in ShoeIds : RunningJobs(s) <= 1

\* C15: a fit profile field an administrator has overridden by hand keeps
\* the overridden value after any later extraction run of the shoe.
C15_OverrideKept ==
    \A s \in ShoeIds : \A o \in overrides[s] : shoe_fit_profiles[s][o[1]] = o[2]

\* C16: the extraction triggers of a shoe collapse: however many runs of the
\* shoe complete, at most one extract_fit_profile message of the shoe is
\* pending in the broker.
C16_TriggersCollapse == \A s \in ShoeIds : extract_queue[s] <= 1

\* C17: an extraction never clears needs_review: the row an extraction
\* call has written, a schema-valid one included, has needs_review = TRUE
\* (the source has no confidence threshold that could clear the flag).
C17_ExtractionNeedsReview ==
    /\ last_extract.shoe_id # NULL => last_extract.after.needs_review
    /\ \A s \in ShoeIds :
          shoe_fit_profiles[s].extraction_model # NULL => shoe_fit_profiles[s].needs_review

\* A schema-valid extraction was stored over a row an administrator had
\* released (needs_review false before, true after).
C17_Witness ==
    /\ last_extract.shoe_id = "s1"
    /\ SchemaValid(last_extract.result)
    /\ ~last_extract.before.needs_review
    /\ last_extract.after.needs_review
    /\ shoe_fit_profiles["s1"] = last_extract.after

----------------------------------------------------------------------------
(* Weight optimizer: properties *)

\* proposed_score >= active_score - tol, on fractions num / den.
WithinTolerance(proposed_score, active_score, tol) ==
    proposed_score.num * active_score.den + tol * proposed_score.den * active_score.den
        >= active_score.num * proposed_score.den

Promotions == {i \in DOMAIN opt_log : opt_log[i].event = "promoted"}

\* C7: a proposed vector whose held-out score is more than the tolerance
\* below the active vector's score never becomes active: every vector in the
\* history after the initial one was appended by a promotion whose scores
\* passed the guard, the active vector is the latest of them, and a run that
\* rejects its proposal (or fails) leaves the active vector as it was.
C7_PromotionGuard ==
    /\ active = Len(weight_history)
    /\ Len(weight_history) = 1 + Cardinality(Promotions)
    /\ \A i \in DOMAIN opt_log :
          LET e == opt_log[i]
              n == Cardinality({j \in Promotions : j <= i})
          IN  /\ e.before = weight_history[IF e.event = "promoted" THEN n ELSE n + 1]
              /\ e.after = weight_history[n + 1]
              /\ e.event = "promoted" =>
                     /\ e.after = e.proposal
                     /\ WithinTolerance(e.proposed_score, e.active_score, tolerance)
              /\ e.event # "promoted" => e.after = e.before
              /\ (e.event # "failed"
                     /\ ~WithinTolerance(e.proposed_score, e.active_score, tolerance)) =>
                     e.event = "rejected"

\* A run rejected a changed proposal scoring more than the tolerance below
\* the active vector, and another run promoted its proposal.
C7_Witness ==
    /\ \E i \in DOMAIN opt_log :
          /\ opt_log[i].event = "rejected"
          /\ opt_log[i].proposal # opt_log[i].before
          /\ ~WithinTolerance(opt_log[i].proposed_score, opt_log[i].active_score, tolerance)
          /\ weight_history[active] = opt_log[i].before
    /\ \E i \in DOMAIN opt_log :
          /\ opt_log[i].event = "promoted"
          /\ opt_log[i].after # opt_log[i].before
    /\ tolerance > 0

\* A weight vector of the optimizer whose every factor is in [0.1, 3.0].
InClampRange(w) ==
    /\ DOMAIN w = Factors
    /\ \A f \in Factors :
          /\ WeightMin * (Unit \div 10) <= w[f]
          /\ w[f] <= WeightMax * (Unit \div 10)

\* C22: starting from weights in the valid range, the vector proposed by
\* update_from_examples has every factor weight in [0.1, 3.0], and so has
\* every vector a later call starts from.
C22_ProposedInRange ==
    /\ \A i \in DOMAIN weight_history : InClampRange(weight_history[i])
    /\ opt.pc # "idle" => InClampRange(opt.proposal)

\* The second call starts from a promoted vector; a correction whose
\* preferred shoe was absent from the original ranking (rank_delta 999) has
\* pushed a factor to the upper end of the range.
C22_Witness ==
    /\ opt.pc = "proposed"
    /\ opt_runs = 2
    /\ active = 2
    /\ weight_history[active] # weight_history[1]
    /\ weight_history[active]["sentiment"] < WeightMax * (Unit \div 10)
    /\ opt.proposal["sentiment"] = WeightMax * (Unit \div 10)

----------------------------------------------------------------------------
(* Weight optimizer and scoring requests: properties *)

\* The vectors that have been promoted so far.
PromotedVectors == {opt_log[i].after : i \in Promotions}

\* The weights read so far are those of vector w.
ReadFrom(w) ==
    \A i \in DOMAIN request.read : request.read[i] = w[FactorOrder[i]]

\* C13: exactly one vector of the history is active at every moment, and a
\* scoring request reads all its factor weights from one single vector: the
\* vector active when it started or a promoted one, never a mixture, also
\* while the optimizer adjusts its weights and a promotion happens.
C13_AtomicSwitch ==
    /\ active \in DOMAIN weight_history
    /\ request.pc # "idle" =>
          \/ ReadFrom(request.began)
          \/ \E w \in PromotedVectors : ReadFrom(w)

\* A request has read all its weights, some before and some after a
\* promotion to a vector with other weights.
C13_Witness ==
    /\ request.pc = "done"
    /\ request.straddled
    /\ weight_history[active] # request.began
    /\ Len(request.read) = Len(FactorOrder)

----------------------------------------------------------------------------
(* Feedback collector: properties *)

DecisionsOf(id) == {i \in DOMAIN decisions : decisions[i].id = id}

ExamplesOf(id) ==
    {i \in DOMAIN training_examples : training_examples[i].recommendation_id = id}

InFlight(id) == {i \in DOMAIN review_calls : review_calls[i].id = id}

\* C23: at most one review request is in flight for a recommendation, and
\* while one is, the recommendation's Approve and Reject controls are
\* disabled (submitting is its id).
C23_OneRequestInFlight ==
    \A id \in RecommendationIds :
        /\ Cardinality(InFlight(id)) <= 1
        /\ InFlight(id) # {} => submitting = id

----------------------------------------------------------------------------
(* Quiz store and quiz page: properties *)

\* C18: once recommendationId is set, the answers and the previous-shoe
\* history of the session are those held when it was set.
C18_ProfileFrozen ==
    recommendationId # NULL =>
        /\ answers = quiz_log.frozen.answers
        /\ previousShoes = quiz_log.frozen.previousShoes

\* C19: when every submitAnswer call has settled (and goBack has not moved),
\* the store holds the answer of every accepted submission and
\* currentQuestionIndex has advanced once per accepted submission,
\* overlapping calls included.
C19_NoLostSubmission ==
    (CallsOf("submitAnswer") = {} /\ quiz_log.backs = 0) =>
        /\ currentQuestionIndex = quiz_log.advances
        /\ \A q \in QuestionIds :
              quiz_log.accepted[q] # NULL => answers[q] = quiz_log.accepted[q]

\* C20: for one completed quiz the page effect requests getRecommendations
\* at most once, also after a failed request or an empty shoe list.
C20_OneAutoRequest == quiz_log.auto_requests <= 1

\* A step in which a submitAnswer call ends without success: its API call
\* threw (a pending call is gone and no submission was accepted), or it
\* found no session.
SubmitFailedStep ==
    /\ \E i \in CallsOf("submitAnswer") : quiz_calls' = Remove(quiz_calls, i)
    /\ quiz_log'.advances = quiz_log.advances

SubmitNoSessionStep ==
    /\ quiz_log'.submits = quiz_log.submits + 1
    /\ sessionId = NULL

\* C26: a submitAnswer call that does not succeed leaves answers,
\* currentQuestionIndex, isComplete and sessionId as they are and sets error
\* to a message; without a session it makes no API call.
C26_FailedSubmitKeepsState ==
    [][/\ (SubmitFailedStep \/ SubmitNoSessionStep) =>
             /\ UNCHANGED <<answers, currentQuestionIndex, isComplete, sessionId>>
             /\ error' # NULL
       /\ SubmitNoSessionStep => quiz_calls' = quiz_calls]_vars

\* After one accepted answer a second submitAnswer call failed: the error
\* is set, the first answer and the index 1 are still held.
C26_Witness ==
    /\ error = "Failed to submit answer"
    /\ quiz_calls = << >>
    /\ quiz_log.submits = 2
    /\ quiz_log.advances = 1
    /\ sessionId # NULL
    /\ currentQuestionIndex = 1
    /\ \E q \in QuestionIds : answers[q] # NULL

----------------------------------------------------------------------------
(* Admin authentication: properties *)

\* C24: the protected children are rendered only while the most recent auth
\* check has succeeded: not after handleLogout and not after a failed
\* check, until a later check succeeds.  The moment between router.push or
\* window.location.href and the change of page is left out.
C24_RenderOnlyAuthenticated ==
    (ChildrenRendered /\ nav = NULL /\ ~reload) => last_auth = "ok"

\* C25: a request carries the Authorization header exactly when a token was
\* held when it was built; a 401 response leaves no token in memory or in
\* localStorage and throws 'Unauthorized'; and a request built after the
\* token was cleared and before it is set again carries no header.
C25_BearerIffToken ==
    /\ \A i \in DOMAIN api_requests :
          /\ (api_requests[i].authorization # NULL) <=> api_requests[i].held
          /\ api_requests[i].after_clear => api_requests[i].authorization = NULL
    /\ last_response.status = 401 =>
          /\ last_response.thrown = "Unauthorized"
          /\ last_response.token = NULL
          /\ last_response.storage = NULL
    /\ auth_cleared => token = NULL /\ local_storage = NULL

\* The latest response was a 401 to a request that carried the token, and a
\* request built since then is waiting without an Authorization header.
C25_Witness ==
    /\ last_response.status = 401
    /\ auth_cleared
    /\ api_sent >= 2
    /\ \E i \in DOMAIN api_requests :
          /\ api_requests[i].after_clear
          /\ api_requests[i].authorization = NULL

----------------------------------------------------------------------------
(* Admin shoe editor: properties *)

\* C27: when handleSave has ended with 'Failed to save changes', neither
\* the shoe attributes nor the fit profile on the server have changed.
C27_NoPartialUpdate ==
    (save_pc = "idle" /\ save_toast = "Failed to save changes") =>
        server_shoe = save_before

----------------------------------------------------------------------------
(* Review pagination: properties *)

\* C28: the pagination of a source terminates; it never fetches more than
\* 50 pages, and when it ends normally it has stopped at the first empty
\* page or, no empty page seen, after the 50th page.
C28_PaginationTerminates ==
    /\ [](pager.fetched <= SafetyLimit)
    /\ [](pager.pc = "done" =>
            pager.fetched = Min(site_pages + 1, SafetyLimit))
    /\ <>(pager.pc \in {"done", "raised"})

\* The product has more than 50 review pages; the loop ended after the 50th.
C28_Witness ==
    /\ site_pages > SafetyLimit
    /\ pager.pc = "done"
    /\ pager.fetched = SafetyLimit
    /\ pager.reviews = SafetyLimit

----------------------------------------------------------------------------
(* Weight optimizer trigger: properties *)

\* C29: every optimization run started on a batch of at least the minimum
\* number of unconsumed training examples, and the active weight vector
\* moves only by the promotion of such a run: while no run has started it
\* is the initial one.
C29_RunNeedsMinimumBatch ==
    /\ \A i \in DOMAIN retrain_log : retrain_log[i] >= MinExamples
    /\ retrain.pc = "running" => retrain.batch >= MinExamples
    /\ train_active <= Len(retrain_log)

\* The periodic update started a run on 51 examples, which was promoted; a
\* trigger sent from a dashboard that still showed 51 pending examples found
\* fewer than the minimum and was refused.
C29_Witness ==
    /\ retrain_log = <<MinExamples + 1>>
    /\ train_active = 1
    /\ retrain_refused = 1
    /\ unconsumed < MinExamples
    /\ retrain.pc = "idle"

----------------------------------------------------------------------------
(* Quiz page: properties *)

\* An answer of the multi_select question that does not hold "none"
\* together with another value.
NoneAlone(answer) ==
    answer = NULL \/ (Includes(answer, "none") => Len(answer) = 1)

\* C30: whatever the clicks, the answer held for the multi_select question,
\* in the store, in a submission under way or accepted by the server, never
\* holds "none" together with another value, and the answer in the store
\* never has more values than max_select.
C30_MultiSelectAnswer ==
    /\ NoneAlone(answers["q1"])
    /\ NoneAlone(quiz_log.accepted["q1"])
    /\ \A i \in CallsOf("submitAnswer") :
          quiz_calls[i].questionId = "q1" => NoneAlone(quiz_calls[i].answer)
    /\ Len(CurrentAnswer("q1")) <= MaxSelect

\* "none" was submitted and accepted; back at the question a click on
\* another option submits that option alone.
C30_Witness ==
    /\ <<"none">> = quiz_log.accepted["q1"]
    /\ <<"none">> = answers["q1"]
    /\ \E i \in CallsOf("submitAnswer") :
          /\ quiz_calls[i].questionId = "q1"
          /\ quiz_calls[i].answer = <<"bunions">>

====
